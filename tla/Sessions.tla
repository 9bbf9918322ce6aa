------------------------------ MODULE Sessions ------------------------------
(***************************************************************************)
(* Accounts and sessions: the refresh-token rows of the database, the HTTP *)
(* handlers that issue, exchange and revoke them one await at a time, and  *)
(* the web client's side, which keeps an access token per tab and the      *)
(* refresh token in a cookie that the tabs of one browser share.           *)
(*                                                                         *)
(* A place of Slots holds one request, from the moment it is sent until    *)
(* its answer has been heard or lost.  Passwords, the CSRF pair (set and   *)
(* cleared with the refresh cookie) and the audit log are left out.        *)
(***************************************************************************)
EXTENDS Integers, FiniteSets

CONSTANTS
    Accounts,       \* user ids
    Tabs, BrowserOf,
    TokenIds,       \* bound: the refresh tokens ever issued
    Slots,          \* bound: requests under way at once
    MaxClicks,      \* bound: requests users ask for
    MaxMishaps,     \* bound: crashes, refusals, lost answers, reloads, expiries
    Nobody, NoToken

Browsers == {BrowserOf[t] : t \in Tabs}

ASSUME SessionsAssumption ==
    /\ BrowserOf \in [Tabs -> Browsers]
    /\ MaxClicks \in Nat /\ MaxMishaps \in Nat
    /\ Nobody \notin Accounts \union Tabs
    /\ NoToken \notin TokenIds
    /\ TokenIds # {}

VARIABLES
    account,    \* table User: "none", "bare" (no password yet), "open", "google", "deleted"
    row,        \* table RefreshToken, with ghosts that say where a token comes from
    resets,     \* table PasswordReset: the accounts with an unused reset token
    jobs,       \* the requests
    cookie,     \* cc_rt of each browser
    saved,      \* localStorage of each browser: cc_auth
    auth,       \* useAuthStore of each tab
    ends,       \* ghost: how often all sessions of an account have been ended
    upset,      \* ghost: browsers that lost an answer
    clicks, mishaps

server       == <<account, row, resets, ends>>
client       == <<cookie, saved, auth, upset>>
sessionsVars == <<server, jobs, client, clicks, mishaps>>

Live == {"bare", "open", "google"}      \* accounts that have a row

-----------------------------------------------------------------------------
(* Requests *)

NoAuth == [user |-> Nobody, fresh |-> FALSE]

Free == [op |-> "none", pc |-> "idle", tab |-> Nobody,
         user |-> Nobody, token |-> NoToken, bearer |-> FALSE, heard |-> FALSE,
         login |-> 0, seen |-> 0, raced |-> FALSE, ok |-> FALSE, set |-> "keep"]

\* What a tab sends: its account, whether the access token it has is still
\* valid, and the cookie the browser holds now.
Request(op, t, u) ==
    [Free EXCEPT !.op = op, !.pc = "sent", !.tab = t, !.user = u,
                 !.token = cookie[BrowserOf[t]], !.bearer = auth[t].fresh,
                 !.heard = TRUE]

AtStep(s, op, pc) == jobs[s].op = op /\ jobs[s].pc = pc

GoOn(s, job) == jobs' = [jobs EXCEPT ![s] = job]

\* A handler has answered: with success or not, and a change of the cookie.
\* What it knew besides does not matter any more.
Answer(job, ok, set) ==
    [Free EXCEPT !.op = job.op, !.pc = "answer", !.tab = job.tab, !.user = job.user,
                 !.heard = job.heard, !.ok = ok, !.set = set,
                 !.token = IF set = "new" THEN job.token ELSE NoToken]

Click(op, t, u) ==
    /\ clicks < MaxClicks
    /\ clicks' = clicks + 1
    /\ \E s \in Slots : jobs[s].pc = "idle" /\ GoOn(s, Request(op, t, u))
    /\ UNCHANGED <<server, client, mishaps>>

Refreshing(t) == \E s \in Slots : jobs[s].op = "refresh" /\ jobs[s].heard /\ jobs[s].tab = t

\* An exception nobody catches.  Without Sentry the process dies, and every
\* request with it; with Sentry only this one is never answered.
Broken(job) ==
    IF job.heard
    THEN [Free EXCEPT !.op = job.op, !.pc = "lost", !.tab = job.tab, !.heard = TRUE]
    ELSE Free

Throw(s) ==
    /\ \/ GoOn(s, Broken(jobs[s]))
       \/ jobs' = [x \in Slots |-> IF jobs[x].pc = "idle" THEN Free ELSE Broken(jobs[x])]
    /\ UNCHANGED server

\* A sign-in's command is rejected: Google's callback catches it and sends the
\* browser back without a session, the other handlers do not.
Rejected(s) ==
    IF jobs[s].op = "google"
    THEN GoOn(s, Answer(jobs[s], FALSE, "keep")) /\ UNCHANGED server
    ELSE Throw(s)

-----------------------------------------------------------------------------
(* Tokens *)

Unused == [status |-> "unused", user |-> Nobody, expired |-> FALSE, login |-> 0,
           raced |-> FALSE, uses |-> 0, contested |-> FALSE]

\* revokeAllRefreshTokens.
RevokedAll(u) ==
    [k \in TokenIds |-> IF row[k].user = u /\ row[k].status = "live"
                        THEN [row[k] EXCEPT !.status = "revoked"] ELSE row[k]]

EndAll(u) ==
    /\ row' = RevokedAll(u)
    /\ ends' = [ends EXCEPT ![u] = @ + 1]

\* issueRefreshToken, for the account of a request; a refresh hands on the
\* origin of the token it exchanges.  The foreign key needs the account.
IssuedRow(job) ==
    [Unused EXCEPT !.status = "live", !.user = job.user, !.login = job.login,
                   !.raced = job.raced \/ job.seen # ends[job.user]]

Issue(s) ==
    LET job == jobs[s]
        unused == {k \in TokenIds : row[k].status = "unused"}
        k == CHOOSE x \in unused : TRUE      \* random: which one is immaterial
    IN  /\ job.pc = "issue"
        /\ IF account[job.user] \in Live
           THEN /\ unused # {}
                /\ row' = [row EXCEPT ![k] = IssuedRow(job)]
                /\ GoOn(s, IF job.op = "refresh"
                           THEN [job EXCEPT !.pc = "whoami", !.token = k]
                           ELSE Answer([job EXCEPT !.token = k], TRUE, "new"))
                /\ UNCHANGED <<account, resets, ends>>
           ELSE Rejected(s)
        /\ UNCHANGED <<client, clicks, mishaps>>

-----------------------------------------------------------------------------
(* Register, login, Google *)

\* The id of a deleted account never comes back: its name makes a new one.
SignInCall(t, u, way) == account[u] # "deleted" /\ Click(way, t, u)

\* The login in this request's name counts from here on.
Origin(job, u) == [job EXCEPT !.user = u, !.login = ends[u], !.seen = ends[u]]

\* createUserOrNull and findOrCreateUserByGoogleId look before they create.
SignInRead(s) ==
    LET job == jobs[s]
        u == job.user
        found == account[u] \in Live
    IN  /\ job.op \in {"login", "register", "google"}
        /\ job.pc = "sent"
        /\ GoOn(s, CASE job.op = "login" /\ account[u] = "open"
                          -> [Origin(job, u) EXCEPT !.pc = "issue"]
                     [] job.op = "google" /\ found -> [Origin(job, u) EXCEPT !.pc = "issue"]
                     [] job.op # "login" /\ account[u] = "none" -> [job EXCEPT !.pc = "create"]
                     [] OTHER -> Answer(job, FALSE, "keep"))
        /\ UNCHANGED <<server, client, clicks, mishaps>>

\* The unique keys refuse a second row.
SignInCreate(s) ==
    LET job == jobs[s]
        u == job.user
        byGoogle == job.op = "google"
    IN  /\ job.pc = "create"
        /\ IF account[u] = "none"
           THEN /\ account' = [account EXCEPT ![u] = IF byGoogle THEN "google" ELSE "bare"]
                /\ GoOn(s, [Origin(job, u) EXCEPT !.pc = IF byGoogle THEN "issue" ELSE "password"])
                /\ UNCHANGED <<row, resets, ends>>
           ELSE Rejected(s)
        /\ UNCHANGED <<client, clicks, mishaps>>

\* setUserPassword: only now can the account be signed in to.
SignInPassword(s) ==
    LET job == jobs[s]
    IN  /\ job.pc = "password"
        /\ account' = [account EXCEPT ![job.user] = "open"]
        /\ GoOn(s, [job EXCEPT !.pc = "issue"])
        /\ UNCHANGED <<row, resets, ends, client, clicks, mishaps>>

-----------------------------------------------------------------------------
(* Refresh: rotateRefreshToken, then getUser *)

\* The client asks when a request of a signed-in tab has been refused with
\* 401, once per tab at a time.
RefreshCall(t) ==
    /\ auth[t].user # Nobody
    /\ ~auth[t].fresh
    /\ ~Refreshing(t)
    /\ Click("refresh", t, auth[t].user)

\* Mutant: a revoked token is taken for a live one.
Unrevoked_Any(k) == row[k].status \in {"live", "revoked"}

Unrevoked(k) == row[k].status = "live"

\* Another request has found the same token live and not exchanged it yet.
Contesting(s, k) ==
    \E x \in Slots \ {s} : AtStep(x, "refresh", "rotate") /\ jobs[x].token = k

RefreshRead(s) ==
    LET job == jobs[s]
        k == job.token
        contested == k # NoToken /\ Contesting(s, k)
    IN  /\ AtStep(s, "refresh", "sent")
        /\ \/ /\ k = NoToken
              /\ GoOn(s, Answer(job, FALSE, "keep"))
           \/ /\ k # NoToken
              /\ row[k].status = "gone" \/ (Unrevoked(k) /\ row[k].expired)
              /\ GoOn(s, Answer(job, FALSE, "clear"))
           \/ /\ k # NoToken
              /\ row[k].status = "revoked" /\ ~Unrevoked(k)
              /\ GoOn(s, [job EXCEPT !.pc = "endAll", !.user = row[k].user])
           \/ /\ k # NoToken
              /\ Unrevoked(k) /\ ~row[k].expired
              /\ GoOn(s, [job EXCEPT !.pc = "rotate", !.user = row[k].user,
                                     !.login = row[k].login, !.raced = row[k].raced,
                                     !.seen = ends[row[k].user]])
        /\ row' = IF contested THEN [row EXCEPT ![k].contested = TRUE] ELSE row
        /\ UNCHANGED <<account, resets, ends, client, clicks, mishaps>>

\* The limiter in front of the handler refuses the request.
RefreshRefused(s) ==
    /\ AtStep(s, "refresh", "sent")
    /\ mishaps < MaxMishaps
    /\ mishaps' = mishaps + 1
    /\ GoOn(s, Answer(jobs[s], FALSE, "keep"))
    /\ UNCHANGED <<server, client, clicks>>

\* Mutants: the exchanged token is not revoked; it gets a status of its own.
Exchanged_Kept(r) == [r EXCEPT !.uses = @ + 1]
Exchanged_Marked(r) == [r EXCEPT !.status = "exchanged", !.uses = @ + 1]

Exchanged(r) == [r EXCEPT !.status = "revoked", !.uses = @ + 1]

\* The update needs the row, which may have been deleted since.
Rotate(s) ==
    LET k == jobs[s].token
    IN  /\ AtStep(s, "refresh", "rotate")
        /\ IF row[k].status = "gone"
           THEN Throw(s)
           ELSE /\ row' = [row EXCEPT ![k] = Exchanged(row[k])]
                /\ GoOn(s, [jobs[s] EXCEPT !.pc = "issue"])
                /\ UNCHANGED <<account, resets, ends>>
        /\ UNCHANGED <<client, clicks, mishaps>>

WhoAmI(s) ==
    LET job == jobs[s]
        known == account[job.user] \in Live
    IN  /\ job.pc = "whoami"
        /\ GoOn(s, Answer(job, known, IF known THEN "new" ELSE "clear"))
        /\ UNCHANGED <<server, client, clicks, mishaps>>

-----------------------------------------------------------------------------
(* What ends sessions: logout, reuse of a token, password reset, the list  *)
(* of sessions, the deletion of the account                                *)

\* A valid access token names the account; else the cookie's row does.
LogoutRead(s) ==
    LET job == jobs[s]
        k == job.token
        user == IF job.bearer THEN job.user
                ELSE IF k # NoToken /\ row[k].status # "gone" THEN row[k].user ELSE Nobody
    IN  /\ AtStep(s, "logout", "sent")
        /\ GoOn(s, IF user = Nobody THEN Answer(job, TRUE, "clear")
                   ELSE [job EXCEPT !.pc = "endAll", !.user = user])
        /\ UNCHANGED <<server, client, clicks, mishaps>>

\* A refresh fails now; a logout and the rest of a deletion succeed.
EndAllSessions(s) ==
    LET job == jobs[s]
    IN  /\ job.pc = "endAll"
        /\ EndAll(job.user)
        /\ GoOn(s, Answer(job, job.op # "refresh", IF job.op = "delete" THEN "keep" ELSE "clear"))
        /\ UNCHANGED <<account, resets, client, clicks, mishaps>>

\* /auth/forgot: nothing but a row; the mail brings the token to the user.
Forgot(u) ==
    /\ account[u] = "open" /\ u \notin resets
    /\ clicks < MaxClicks
    /\ clicks' = clicks + 1
    /\ resets' = resets \union {u}
    /\ UNCHANGED <<account, row, ends, jobs, client, mishaps>>

ResetCall(t, u) == account[u] # "none" /\ Click("reset", t, u)

ResetRead(s) ==
    LET job == jobs[s]
    IN  /\ AtStep(s, "reset", "sent")
        /\ GoOn(s, IF job.user \in resets THEN [job EXCEPT !.pc = "commit"]
                                          ELSE Answer(job, FALSE, "keep"))
        /\ UNCHANGED <<server, client, clicks, mishaps>>

\* The transaction does not look again whether the reset token is unused.
ResetCommit(s) ==
    LET u == jobs[s].user
    IN  /\ AtStep(s, "reset", "commit")
        /\ IF account[u] \in Live
           THEN /\ resets' = resets \ {u}
                /\ EndAll(u)
                /\ GoOn(s, Answer(jobs[s], TRUE, "clear"))
                /\ UNCHANGED account
           ELSE Throw(s)
        /\ UNCHANGED <<client, clicks, mishaps>>

\* A session ended from the list of the account's live sessions.
EndSessionCall(t, k) ==
    /\ auth[t].fresh
    /\ row[k].status = "live" /\ row[k].user = auth[t].user
    /\ clicks < MaxClicks
    /\ clicks' = clicks + 1
    /\ \E s \in Slots : /\ jobs[s].pc = "idle"
                        /\ GoOn(s, [Request("endSession", t, auth[t].user) EXCEPT !.token = k])
    /\ UNCHANGED <<server, client, mishaps>>

\* Read and updated; a row deleted meanwhile is not found, by either.
EndSession(s) ==
    LET k == jobs[s].token
    IN  /\ AtStep(s, "endSession", "sent")
        /\ \/ /\ row[k].status # "gone"
              /\ row' = [row EXCEPT ![k].status = "revoked"]
              /\ GoOn(s, Answer(jobs[s], TRUE, "keep"))
              /\ UNCHANGED <<account, resets, ends>>
           \/ /\ row[k].status = "gone"
              /\ GoOn(s, Answer(jobs[s], FALSE, "keep"))
              /\ UNCHANGED server
           \/ row[k].status = "gone" /\ Throw(s)
        /\ UNCHANGED <<client, clicks, mishaps>>

DeleteCall(t) == auth[t].fresh /\ Click("delete", t, auth[t].user)

DeleteRead(s) ==
    LET job == jobs[s]
    IN  /\ AtStep(s, "delete", "sent")
        /\ GoOn(s, IF account[job.user] = "open" THEN [job EXCEPT !.pc = "commit"]
                                                 ELSE Answer(job, FALSE, "keep"))
        /\ UNCHANGED <<server, client, clicks, mishaps>>

Dropped(doomed) ==
    [k \in TokenIds |-> IF k \in doomed THEN [row[k] EXCEPT !.status = "gone"] ELSE row[k]]

\* The user's rows go with the account; a second deletion finds none.
DeleteCommit(s) ==
    LET u == jobs[s].user
    IN  /\ AtStep(s, "delete", "commit")
        /\ IF account[u] = "open"
           THEN /\ account' = [account EXCEPT ![u] = "deleted"]
                /\ row' = Dropped({k \in TokenIds : row[k].user = u})
                /\ resets' = resets \ {u}
                /\ GoOn(s, [jobs[s] EXCEPT !.pc = "endAll"])
                /\ UNCHANGED ends
           ELSE Throw(s)
        /\ UNCHANGED <<client, clicks, mishaps>>

\* cleanupExpiredRefreshTokens; a row is expired long before it is 30 days revoked.
Cleanup ==
    /\ \E k \in TokenIds : row[k].expired /\ row[k].status # "gone"
    /\ row' = Dropped({k \in TokenIds : row[k].expired})
    /\ UNCHANGED <<account, resets, ends, jobs, client, clicks, mishaps>>

-----------------------------------------------------------------------------
(* The web client *)

\* useAuthStore.logout: the tab forgets at once, the request is sent and
\* forgotten; without an access token there is nothing to send.
ClientLogout(t, s, k) ==
    LET request == [Request("logout", t, auth[t].user) EXCEPT !.token = k]
    IN  /\ GoOn(s, IF auth[t].user = Nobody THEN Free ELSE request)
        /\ auth' = [auth EXCEPT ![t] = NoAuth]
        /\ saved' = [saved EXCEPT ![BrowserOf[t]] = NoAuth]

LogoutClick(t) ==
    /\ auth[t].user # Nobody
    /\ clicks < MaxClicks
    /\ clicks' = clicks + 1
    /\ \E s \in Slots : /\ jobs[s].pc = "idle"
                        /\ ClientLogout(t, s, cookie[BrowserOf[t]])
    /\ UNCHANGED <<server, cookie, upset, mishaps>>

\* setAuth: whatever has happened in the tab since the request was sent.
SetAuth(t, u) ==
    /\ auth'  = [auth EXCEPT ![t] = [user |-> u, fresh |-> TRUE]]
    /\ saved' = [saved EXCEPT ![BrowserOf[t]] = [user |-> u, fresh |-> TRUE]]

\* Mutant: the browser keeps the cookie it has.
CookieAfter_Stale(job) == IF job.set = "clear" THEN NoToken ELSE cookie[BrowserOf[job.tab]]

CookieAfter(job) ==
    CASE job.set = "new"   -> job.token
      [] job.set = "clear" -> NoToken
      [] OTHER             -> cookie[BrowserOf[job.tab]]

\* What the client does next in the place of a request that has failed: after
\* a refused login, as after any 401, it tries to refresh.
AfterFailure(job) ==
    IF job.op = "login" /\ ~Refreshing(job.tab)
    THEN Request("refresh", job.tab, auth[job.tab].user)
    ELSE Free

\* The answer is heard: the cookie first, then the tab's code.
Heard(s) ==
    LET job == jobs[s]
        t == job.tab
    IN  /\ job.pc = "answer" /\ job.heard
        /\ cookie' = [cookie EXCEPT ![BrowserOf[t]] = CookieAfter(job)]
        /\ IF job.op \in {"login", "register", "google", "refresh"} /\ job.ok
           THEN SetAuth(t, job.user) /\ GoOn(s, Free)
           ELSE IF (job.op = "refresh" /\ ~job.ok) \/ (job.op = "delete" /\ job.ok)
           THEN ClientLogout(t, s, CookieAfter(job))
           ELSE GoOn(s, IF job.ok THEN Free ELSE AfterFailure(job)) /\ UNCHANGED <<saved, auth>>
        /\ UNCHANGED <<server, upset, clicks, mishaps>>

\* Nobody waits for it any more: the tab has been reloaded.
Unheard(s) ==
    /\ jobs[s].pc = "answer" /\ ~jobs[s].heard
    /\ GoOn(s, Free)
    /\ UNCHANGED <<server, client, clicks, mishaps>>

\* The connection broke: for the client, a refresh that fails.
Lost(s) ==
    LET job == jobs[s]
    IN  /\ job.pc = "lost"
        /\ upset' = upset \union {BrowserOf[job.tab]}
        /\ IF job.op = "refresh"
           THEN ClientLogout(job.tab, s, cookie[BrowserOf[job.tab]])
           ELSE GoOn(s, Free) /\ UNCHANGED <<saved, auth>>
        /\ UNCHANGED <<server, cookie, clicks, mishaps>>

Mishap == mishaps < MaxMishaps /\ mishaps' = mishaps + 1

LoseAnswer(s) ==
    /\ Mishap
    /\ jobs[s].pc = "answer" /\ jobs[s].heard
    /\ GoOn(s, Broken(jobs[s]))
    /\ UNCHANGED <<server, client, clicks>>

Crash ==
    /\ Mishap
    /\ jobs' = [s \in Slots |-> IF jobs[s].pc = "idle" THEN Free ELSE Broken(jobs[s])]
    /\ UNCHANGED <<server, client, clicks>>

\* The tab starts again from localStorage; its requests are aborted.
Reload(t) ==
    LET mine(s) == jobs[s].pc # "idle" /\ jobs[s].heard /\ jobs[s].tab = t
    IN  /\ Mishap
        /\ auth' = [auth EXCEPT ![t] = saved[BrowserOf[t]]]
        /\ jobs' = [s \in Slots |-> IF ~mine(s) THEN jobs[s]
                                    ELSE IF jobs[s].pc = "lost" THEN Free
                                    ELSE [jobs[s] EXCEPT !.heard = FALSE]]
        /\ upset' = IF \E s \in Slots : mine(s) THEN upset \union {BrowserOf[t]} ELSE upset
        /\ UNCHANGED <<server, cookie, saved, clicks>>

\* Fifteen minutes pass: longer than any request.
AccessExpires ==
    /\ \A s \in Slots : jobs[s].pc = "idle"
    /\ \E t \in Tabs : auth[t].fresh
    /\ auth'  = [t \in Tabs |-> [auth[t] EXCEPT !.fresh = FALSE]]
    /\ saved' = [b \in Browsers |-> [saved[b] EXCEPT !.fresh = FALSE]]
    /\ UNCHANGED <<server, jobs, cookie, upset, clicks, mishaps>>

\* Seven days after it was issued; the browser drops the cookie then or later.
TokenExpires(k) ==
    /\ Mishap
    /\ row[k].status \in {"live", "revoked"} /\ ~row[k].expired
    /\ row' = [row EXCEPT ![k].expired = TRUE]
    /\ UNCHANGED <<account, resets, ends, jobs, client, clicks>>

CookieExpires(b) ==
    /\ cookie[b] # NoToken /\ row[cookie[b]].expired
    /\ cookie' = [cookie EXCEPT ![b] = NoToken]
    /\ UNCHANGED <<server, jobs, saved, auth, upset, clicks, mishaps>>

-----------------------------------------------------------------------------
\* The accounts are still to be made, or a user is signed in, with token k, in
\* the tabs of browser b.
NewAccount ==
    /\ account = [v \in Accounts |-> "none"]
    /\ row = [x \in TokenIds |-> Unused]
    /\ cookie = [b \in Browsers |-> NoToken]
    /\ saved = [b \in Browsers |-> NoAuth]

SignedIn(u, b, k) ==
    /\ account = [v \in Accounts |-> IF v = u THEN "open" ELSE "none"]
    /\ row = [x \in TokenIds |-> IF x = k THEN [Unused EXCEPT !.status = "live", !.user = u]
                                          ELSE Unused]
    /\ cookie = [x \in Browsers |-> IF x = b THEN k ELSE NoToken]
    /\ saved = [x \in Browsers |-> IF x = b THEN [user |-> u, fresh |-> TRUE] ELSE NoAuth]

SessionsInit ==
    /\ \/ NewAccount
       \/ \E u \in Accounts, b \in Browsers : SignedIn(u, b, CHOOSE k \in TokenIds : TRUE)
    /\ resets = {}
    /\ jobs = [s \in Slots |-> Free]
    /\ auth = [t \in Tabs |-> saved[BrowserOf[t]]]
    /\ ends = [u \in Accounts |-> 0]
    /\ upset = {}
    /\ clicks = 0
    /\ mishaps = 0

\* A request goes on, on the server and back in the browser.
Serve(s) ==
    \/ SignInRead(s) \/ SignInCreate(s) \/ SignInPassword(s) \/ Issue(s)
    \/ RefreshRead(s) \/ Rotate(s) \/ WhoAmI(s)
    \/ LogoutRead(s) \/ EndAllSessions(s)
    \/ ResetRead(s) \/ ResetCommit(s) \/ EndSession(s)
    \/ DeleteRead(s) \/ DeleteCommit(s)
    \/ Heard(s) \/ Unheard(s) \/ Lost(s)

Ask(t) ==
    \/ \E u \in Accounts : \/ \E way \in {"login", "register", "google"} : SignInCall(t, u, way)
                           \/ ResetCall(t, u)
    \/ RefreshCall(t) \/ LogoutClick(t) \/ DeleteCall(t) \/ Reload(t)
    \/ \E k \in TokenIds : EndSessionCall(t, k)

SessionsNext ==
    \/ \E s \in Slots : Serve(s) \/ RefreshRefused(s) \/ LoseAnswer(s)
    \/ \E t \in Tabs : Ask(t)
    \/ \E u \in Accounts : Forgot(u)
    \/ \E k \in TokenIds : TokenExpires(k)
    \/ \E b \in Browsers : CookieExpires(b)
    \/ Cleanup \/ AccessExpires \/ Crash

SessionsSpec == SessionsInit /\ [][SessionsNext]_sessionsVars

-----------------------------------------------------------------------------
Row == [status : {"unused", "live", "revoked", "gone"}, user : Accounts \union {Nobody},
        expired : BOOLEAN, login : Nat, raced : BOOLEAN, uses : Nat, contested : BOOLEAN]

Job == [op : {"none", "login", "register", "google", "refresh", "logout", "reset",
              "endSession", "delete"},
        pc : {"idle", "sent", "create", "password", "issue", "rotate", "whoami", "endAll",
              "commit", "answer", "lost"},
        tab : Tabs \union {Nobody}, user : Accounts \union {Nobody}, token : TokenIds \union {NoToken},
        bearer : BOOLEAN, heard : BOOLEAN, login : Nat, seen : Nat, raced : BOOLEAN,
        ok : BOOLEAN, set : {"keep", "clear", "new"}]

Auth == [user : Accounts \union {Nobody}, fresh : BOOLEAN]

SessionsTypeOK ==
    /\ account \in [Accounts -> {"none", "bare", "open", "google", "deleted"}]
    /\ row \in [TokenIds -> Row]
    /\ resets \subseteq Accounts
    /\ jobs \in [Slots -> Job]
    /\ cookie \in [Browsers -> TokenIds \union {NoToken}]
    /\ saved \in [Browsers -> Auth]
    /\ auth \in [Tabs -> Auth]
    /\ ends \in [Accounts -> Nat]
    /\ upset \subseteq Browsers
    /\ clicks \in Nat /\ mishaps \in Nat

\* A session that was ended stays ended: once all sessions of an account have
\* been ended, by a logout, a password reset or the reuse of an exchanged
\* token, no token that comes from an earlier login is live, whatever was
\* exchanged in between, unless the handler that issued it was already under way.
EndedSessionsStayEnded ==
    \A k \in TokenIds : row[k].status = "live" /\ ~row[k].raced => row[k].login = ends[row[k].user]

\* What makes that so: a live token belongs to an account and, unless issued in
\* a race, to a login since its sessions were last ended; a handler that is
\* about to issue one knows how often they had been ended when it looked, and
\* the login it looked at counted then.
SoundRows ==
    \A k \in TokenIds : row[k].status = "live" =>
        /\ row[k].user \in Accounts
        /\ ~row[k].raced => row[k].login = ends[row[k].user]

SoundJob(job) ==
    /\ job.pc \in {"password", "rotate", "issue"} =>
          /\ job.user \in Accounts
          /\ job.seen <= ends[job.user]
          /\ ~job.raced /\ job.seen = ends[job.user] => job.login = ends[job.user]
    /\ job.pc = "create" => job.user \in Accounts
    /\ job.pc = "sent" /\ job.op \in {"login", "register", "google"} => job.user \in Accounts
    /\ job.pc # "idle" => job.tab \in Tabs

SoundJobs == \A s \in Slots : SoundJob(jobs[s])

SessionsInv == SessionsTypeOK /\ SoundRows /\ SoundJobs

\* A refresh token is exchanged at most once, unless two requests found it
\* live before either had exchanged it.
SingleUse == \A k \in TokenIds : row[k].uses > 1 => row[k].contested

\* A browser never holds a token that has been exchanged, which would end all
\* its sessions when presented, except while the exchange is under way or
\* after an answer of its was lost.
CookieIsCurrent ==
    \A b \in Browsers \ upset :
        cookie[b] # NoToken /\ row[cookie[b]].uses > 0 =>
            \E s \in Slots : jobs[s].op = "refresh" /\ jobs[s].heard /\ BrowserOf[jobs[s].tab] = b

=============================================================================
