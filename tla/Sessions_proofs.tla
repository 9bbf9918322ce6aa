-------------------------- MODULE Sessions_proofs ---------------------------
(***************************************************************************)
(* Theorems about Sessions, for any number of accounts, tabs, browsers,    *)
(* requests and tokens.  Every step gives a place a request that is sound  *)
(* (JobStep), gives up some requests (GiveUp), or ends the sessions of an  *)
(* account (EndStep).                                                      *)
(***************************************************************************)
EXTENDS Sessions, TLAPS

-----------------------------------------------------------------------------
(* Requests *)

Ops == {"login", "register", "google", "refresh", "logout", "reset", "endSession", "delete"}

\* A request that is not about to issue a token, nor to make an account.
Quiet(job) ==
    /\ job \in Job
    /\ job.pc \in {"idle", "answer", "lost", "whoami", "endAll", "commit"}
    /\ job.pc # "idle" => job.tab \in Tabs

LEMMA QuietIsSound ==
    ASSUME NEW job, Quiet(job)
    PROVE  SoundJob(job)
  BY DEF Quiet, SoundJob

\* A free place is one.
LEMMA FreeIsQuiet == Quiet(Free)
  BY DEF Quiet, Free, Job

\* What a tab sends is a request, and is sound if it names an account.
LEMMA RequestType ==
    ASSUME SessionsTypeOK, NEW op \in Ops, NEW t \in Tabs, NEW u \in Accounts \union {Nobody}
    PROVE  /\ Request(op, t, u) \in Job
           /\ Request(op, t, u).pc = "sent"
           /\ Request(op, t, u).op = op
           /\ Request(op, t, u).user = u
           /\ Request(op, t, u).tab = t
<1>1. cookie[BrowserOf[t]] \in TokenIds \union {NoToken}
  BY SessionsAssumption DEF SessionsTypeOK
<1>2. auth[t].fresh \in BOOLEAN
  BY DEF SessionsTypeOK, Auth
<1>3. QED
  BY <1>1, <1>2, ZenonT(30) DEF Request, Free, Job, Ops

LEMMA RequestSound ==
    ASSUME SessionsTypeOK, NEW op \in Ops, NEW t \in Tabs, NEW u \in Accounts \union {Nobody},
           op \in {"login", "register", "google"} => u \in Accounts
    PROVE  SoundJob(Request(op, t, u))
  BY RequestType DEF SoundJob

LEMMA AnswerIsQuiet ==
    ASSUME NEW job \in Job, job.tab \in Tabs, NEW ok \in BOOLEAN, NEW set \in {"keep", "clear", "new"}
    PROVE  Quiet(Answer(job, ok, set))
<1>1. job.op \in Ops \union {"none"} /\ job.tab \in Tabs \union {Nobody}
      /\ job.user \in Accounts \union {Nobody} /\ job.heard \in BOOLEAN
      /\ job.token \in TokenIds \union {NoToken}
  BY DEF Job, Ops
<1> DEFINE token == IF set = "new" THEN job.token ELSE NoToken
<1>2. token \in TokenIds \union {NoToken}
  BY <1>1
<1>3. Answer(job, ok, set) =
        [op |-> job.op, pc |-> "answer", tab |-> job.tab, user |-> job.user, token |-> token,
         bearer |-> FALSE, heard |-> job.heard, login |-> 0, seen |-> 0, raced |-> FALSE,
         ok |-> ok, set |-> set]
  <2>1. Answer(job, ok, set) = [Free EXCEPT !.op = job.op, !.pc = "answer", !.tab = job.tab,
                                    !.user = job.user, !.heard = job.heard, !.ok = ok,
                                    !.set = set, !.token = token]
    BY DEF Answer
  <2> HIDE DEF token
  <2>2. QED
    BY <2>1, ZenonT(60) DEF Free
<1> HIDE DEF token
<1>4. QED
  BY <1>1, <1>2, <1>3 DEF Quiet, Job, Ops

LEMMA BrokenIsQuiet ==
    ASSUME NEW job \in Job, job.tab \in Tabs
    PROVE  Quiet(Broken(job))
<1>1. job.op \in Ops \union {"none"} /\ job.tab \in Tabs \union {Nobody}
  BY DEF Job, Ops
<1>2. CASE job.heard
  <2>1. Broken(job) =
          [op |-> job.op, pc |-> "lost", tab |-> job.tab, user |-> Nobody, token |-> NoToken,
           bearer |-> FALSE, heard |-> TRUE, login |-> 0, seen |-> 0, raced |-> FALSE,
           ok |-> FALSE, set |-> "keep"]
    BY <1>2 DEF Broken, Free
  <2>2. QED
    BY <1>1, <2>1 DEF Quiet, Job, Ops
<1>3. CASE ~job.heard
  BY <1>3, FreeIsQuiet DEF Broken
<1>4. QED
  BY <1>2, <1>3

-----------------------------------------------------------------------------
(* What the steps have in common *)

\* A place gets a request that is sound, and no sessions are ended.
LEMMA JobStep ==
    ASSUME SessionsInv, NEW s \in Slots, NEW job \in Job, SoundJob(job),
           GoOn(s, job), UNCHANGED ends
    PROVE  jobs' \in [Slots -> Job] /\ SoundJobs'
<1>1. jobs' \in [Slots -> Job]
  BY DEF SessionsInv, SessionsTypeOK, GoOn
<1>2. ASSUME NEW x \in Slots PROVE SoundJob(jobs[x])'
  <2>1. CASE x = s
    <3>1. jobs'[x] = job
      BY <2>1 DEF SessionsInv, SessionsTypeOK, GoOn
    <3>2. QED
      BY <3>1 DEF SoundJob
  <2>2. CASE x # s
    <3>1. jobs'[x] = jobs[x]
      BY <2>2 DEF SessionsInv, SessionsTypeOK, GoOn
    <3>2. QED
      BY <3>1 DEF SessionsInv, SoundJobs, SoundJob
  <2>3. QED
    BY <2>1, <2>2
<1>3. QED
  BY <1>1, <1>2 DEF SoundJobs

LEMMA QuietStep ==
    ASSUME SessionsInv, NEW s \in Slots, NEW job, Quiet(job),
           GoOn(s, job), UNCHANGED ends
    PROVE  jobs' \in [Slots -> Job] /\ SoundJobs'
  BY QuietIsSound, JobStep DEF Quiet

\* Some requests are given up, the others stay.
LEMMA GiveUp ==
    ASSUME SessionsInv, UNCHANGED ends,
           NEW f, jobs' = [s \in Slots |-> f[s]],
           \A s \in Slots : Quiet(f[s]) \/ f[s] = jobs[s]
    PROVE  jobs' \in [Slots -> Job] /\ SoundJobs'
<1>1. \A s \in Slots : f[s] \in Job
  BY DEF SessionsInv, SessionsTypeOK, Quiet
<1>2. ASSUME NEW s \in Slots PROVE SoundJob(jobs[s])'
  <2>1. CASE Quiet(f[s])
    BY <2>1, QuietIsSound DEF Quiet, SoundJob
  <2>2. CASE f[s] = jobs[s]
    BY <2>2 DEF SessionsInv, SoundJobs, SoundJob
  <2>3. QED
    BY <2>1, <2>2
<1>3. QED
  BY <1>1, <1>2 DEF SoundJobs

\* All sessions of an account are ended, by a request that is quiet then.  Who
\* looked before no longer knows how often.
LEMMA EndStep ==
    ASSUME SessionsInv, NEW u, EndAll(u), NEW s \in Slots, NEW job, Quiet(job), GoOn(s, job)
    PROVE  /\ row' \in [TokenIds -> Row]
           /\ ends' \in [Accounts -> Nat]
           /\ jobs' \in [Slots -> Job]
           /\ SoundRows' /\ SoundJobs'
<1>1. row' \in [TokenIds -> Row] /\ ends' \in [Accounts -> Nat] /\ jobs' \in [Slots -> Job]
  <2>1. \A k \in TokenIds : row[k] \in Row
    BY DEF SessionsInv, SessionsTypeOK
  <2>2. \A k \in TokenIds : [row[k] EXCEPT !.status = "revoked"] \in Row
    BY <2>1 DEF Row
  <2>3. row' = [k \in TokenIds |-> IF row[k].user = u /\ row[k].status = "live"
                                   THEN [row[k] EXCEPT !.status = "revoked"] ELSE row[k]]
    BY DEF EndAll, RevokedAll
  <2>4. row' \in [TokenIds -> Row]
    BY <2>1, <2>2, <2>3
  <2>5. ends' \in [Accounts -> Nat]
    <3>1. ends \in [Accounts -> Nat] /\ ends' = [ends EXCEPT ![u] = ends[u] + 1]
      BY DEF SessionsInv, SessionsTypeOK, EndAll
    <3>2. CASE u \in Accounts
      BY <3>1, <3>2
    <3>3. CASE u \notin Accounts
      BY <3>1, <3>3
    <3>4. QED
      BY <3>2, <3>3
  <2>6. jobs' \in [Slots -> Job]
    BY DEF SessionsInv, SessionsTypeOK, GoOn, Quiet
  <2>7. QED
    BY <2>4, <2>5, <2>6
<1>2. SoundRows'
  <2> SUFFICES ASSUME NEW k \in TokenIds, row'[k].status = "live"
               PROVE  /\ row'[k].user \in Accounts
                      /\ ~row'[k].raced => row'[k].login = ends'[row'[k].user]
    BY DEF SoundRows
  <2>1. row'[k] = row[k] /\ row[k].user # u
    BY DEF SessionsInv, SessionsTypeOK, EndAll, RevokedAll, Row
  <2>2. row[k].user \in Accounts
    BY <2>1 DEF SessionsInv, SoundRows
  <2>3. ends'[row[k].user] = ends[row[k].user]
    BY <2>1, <2>2 DEF SessionsInv, SessionsTypeOK, EndAll
  <2>4. QED
    BY <2>1, <2>2, <2>3 DEF SessionsInv, SoundRows
<1>3. SoundJobs'
  <2> SUFFICES ASSUME NEW x \in Slots PROVE SoundJob(jobs[x])'
    BY DEF SoundJobs
  <2>1. CASE x = s
    BY <2>1, QuietIsSound DEF SessionsInv, SessionsTypeOK, GoOn, Quiet, SoundJob
  <2>2. CASE x # s
    <3>1. jobs'[x] = jobs[x]
      BY <2>2 DEF SessionsInv, SessionsTypeOK, GoOn
    <3>2. \A v \in Accounts : ends[v] \in Nat /\ ends'[v] = IF v = u THEN ends[v] + 1 ELSE ends[v]
      BY DEF SessionsInv, SessionsTypeOK, EndAll
    <3>3. jobs[x].seen \in Nat
      BY DEF SessionsInv, SessionsTypeOK, Job
    <3>4. SoundJob(jobs[x])
      BY DEF SessionsInv, SoundJobs
    <3>5. QED
      BY <3>1, <3>2, <3>3, <3>4 DEF SoundJob
  <2>3. QED
    BY <2>1, <2>2
<1>4. QED
  BY <1>1, <1>2, <1>3

\* A request that throws: nothing but requests is lost.
LEMMA ThrowStep ==
    ASSUME SessionsInv, NEW s \in Slots, jobs[s].pc # "idle", Throw(s)
    PROVE  /\ jobs' \in [Slots -> Job] /\ SoundJobs'
           /\ UNCHANGED server
<1>1. \A x \in Slots : jobs[x].pc # "idle" => Quiet(Broken(jobs[x]))
  BY BrokenIsQuiet DEF SessionsInv, SessionsTypeOK, SoundJobs, SoundJob
<1>2. UNCHANGED ends
  BY DEF Throw, server
<1>3. CASE GoOn(s, Broken(jobs[s]))
  BY <1>1, <1>2, <1>3, QuietStep DEF Throw
<1>4. CASE jobs' = [x \in Slots |-> IF jobs[x].pc = "idle" THEN Free ELSE Broken(jobs[x])]
  <2> DEFINE f == [x \in Slots |-> IF jobs[x].pc = "idle" THEN Free ELSE Broken(jobs[x])]
  <2>1. jobs' = [x \in Slots |-> f[x]] /\ \A x \in Slots : Quiet(f[x])
    BY <1>1, <1>4, FreeIsQuiet
  <2> HIDE DEF f
  <2>2. QED
    BY <1>2, <2>1, GiveUp DEF Throw
<1>5. QED
  BY <1>3, <1>4 DEF Throw

\* Rows that are not live need not be sound.
LEMMA RowStep ==
    ASSUME SessionsInv, UNCHANGED ends, row' \in [TokenIds -> Row],
           \A k \in TokenIds : row'[k].status = "live" =>
               /\ row[k].status = "live"
               /\ row'[k].user = row[k].user /\ row'[k].login = row[k].login
               /\ row'[k].raced = row[k].raced
    PROVE  SoundRows'
  BY DEF SessionsInv, SoundRows

-----------------------------------------------------------------------------
(* The parts of the invariant, which most steps leave alone *)

ServerSound ==
    /\ account \in [Accounts -> {"none", "bare", "open", "google", "deleted"}]
    /\ row \in [TokenIds -> Row]
    /\ resets \subseteq Accounts
    /\ ends \in [Accounts -> Nat]
    /\ SoundRows

ClientTyped ==
    /\ cookie \in [Browsers -> TokenIds \union {NoToken}]
    /\ saved \in [Browsers -> Auth]
    /\ auth \in [Tabs -> Auth]
    /\ upset \subseteq Browsers

Counted == clicks \in Nat /\ mishaps \in Nat

JobsSound == jobs \in [Slots -> Job] /\ SoundJobs

LEMMA Parts == SessionsInv <=> ServerSound /\ ClientTyped /\ Counted /\ JobsSound
  BY DEF SessionsInv, SessionsTypeOK, ServerSound, ClientTyped, Counted, JobsSound

LEMMA PartsNext == SessionsInv' <=> ServerSound' /\ ClientTyped' /\ Counted' /\ JobsSound'
  BY Parts, PTL

LEMMA ServerKept == ServerSound /\ UNCHANGED server => ServerSound'
  BY DEF ServerSound, server, SoundRows

LEMMA ClientKept == ClientTyped /\ UNCHANGED client => ClientTyped'
  BY DEF ClientTyped, client

LEMMA CountsKept == Counted /\ UNCHANGED <<clicks, mishaps>> => Counted'
  BY DEF Counted

\* A request under way, with the types of its parts.
LEMMA JobFacts ==
    ASSUME SessionsInv, NEW s \in Slots
    PROVE  /\ jobs[s] \in Job
           /\ SoundJob(jobs[s])
           /\ jobs[s].user \in Accounts \union {Nobody}
           /\ jobs[s].token \in TokenIds \union {NoToken}
           /\ jobs[s].pc # "idle" => jobs[s].tab \in Tabs
           /\ jobs[s].heard \in BOOLEAN
           /\ jobs[s].seen \in Nat
           /\ jobs[s].raced \in BOOLEAN
  BY DEF SessionsInv, SessionsTypeOK, SoundJobs, SoundJob, Job

-----------------------------------------------------------------------------
(* The steps of the handlers *)

\* A click sends a request and does nothing else.
LEMMA ClickStep ==
    ASSUME SessionsInv, NEW op \in Ops, NEW t \in Tabs, NEW u \in Accounts \union {Nobody},
           op \in {"login", "register", "google"} => u \in Accounts,
           Click(op, t, u)
    PROVE  SessionsInv'
<1>1. PICK s \in Slots : GoOn(s, Request(op, t, u))
  BY DEF Click
<1>2. SessionsTypeOK
  BY DEF SessionsInv
<1>3. Request(op, t, u) \in Job /\ SoundJob(Request(op, t, u))
  BY <1>2, RequestType, RequestSound
<1>4. JobsSound'
  BY <1>1, <1>3, JobStep DEF JobsSound, Click, server
<1>5. Counted'
  BY Parts DEF Counted, Click
<1>6. QED
  BY <1>4, <1>5, Parts, PartsNext, ServerKept, ClientKept DEF Click

\* A request goes on quietly and nothing else changes.
LEMMA QuietServe ==
    ASSUME SessionsInv, NEW s \in Slots, NEW job \in Job, SoundJob(job), GoOn(s, job),
           UNCHANGED <<server, client, clicks, mishaps>>
    PROVE  SessionsInv'
<1>1. JobsSound'
  BY JobStep DEF JobsSound, server
<1>2. QED
  BY <1>1, Parts, PartsNext, ServerKept, ClientKept, CountsKept

\* The login counts from here on.
LEMMA OriginSound ==
    ASSUME SessionsInv, NEW job \in Job, job.tab \in Tabs, NEW u \in Accounts,
           NEW pc \in {"issue", "password"}
    PROVE  /\ [Origin(job, u) EXCEPT !.pc = pc] \in Job
           /\ SoundJob([Origin(job, u) EXCEPT !.pc = pc])
<1>1. ends[u] \in Nat
  BY DEF SessionsInv, SessionsTypeOK
<1> DEFINE origin == Origin(job, u)
<1>2. /\ origin \in Job
      /\ origin.user = u /\ origin.login = ends[u] /\ origin.seen = ends[u]
      /\ origin.tab = job.tab
  BY <1>1 DEF Origin, Job
<1> HIDE DEF origin
<1> DEFINE new == [origin EXCEPT !.pc = pc]
<1>3. /\ new \in Job
      /\ new.user = u /\ new.login = ends[u] /\ new.seen = ends[u]
      /\ new.tab = job.tab /\ new.pc = pc
  BY <1>2 DEF Job
<1> HIDE DEF new
<1>4. SoundJob(new)
  BY <1>1, <1>3 DEF SoundJob
<1>5. QED
  BY <1>3, <1>4 DEF new, origin

\* A handler answers and changes nothing else.
LEMMA AnswerStep ==
    ASSUME SessionsInv, NEW s \in Slots, jobs[s].pc # "idle",
           NEW ok \in BOOLEAN, NEW set \in {"keep", "clear", "new"},
           GoOn(s, Answer(jobs[s], ok, set)), UNCHANGED <<server, client, clicks, mishaps>>
    PROVE  SessionsInv'
<1>1. Quiet(Answer(jobs[s], ok, set))
  BY JobFacts, AnswerIsQuiet
<1>2. QED
  BY <1>1, QuietIsSound, QuietServe DEF Quiet

\* A handler throws.
LEMMA ThrowServe ==
    ASSUME SessionsInv, NEW s \in Slots, jobs[s].pc # "idle",
           Throw(s), UNCHANGED <<client, clicks, mishaps>>
    PROVE  SessionsInv'
<1>1. JobsSound' /\ UNCHANGED server
  BY ThrowStep DEF JobsSound
<1>2. QED
  BY <1>1, Parts, PartsNext, ServerKept, ClientKept, CountsKept

LEMMA SignInReadStep ==
    ASSUME SessionsInv, NEW s \in Slots, SignInRead(s)
    PROVE  SessionsInv'
<1> DEFINE job == jobs[s]
<1>1. job \in Job /\ SoundJob(job) /\ job.user \in Accounts /\ job.tab \in Tabs
      /\ job.pc # "idle"
  BY JobFacts DEF SignInRead, SoundJob
<1>2. UNCHANGED <<server, client, clicks, mishaps>>
  BY DEF SignInRead
<1>3. CASE GoOn(s, [Origin(job, job.user) EXCEPT !.pc = "issue"])
  BY <1>1, <1>2, <1>3, OriginSound, QuietServe
<1>4. CASE GoOn(s, [job EXCEPT !.pc = "create"])
  <2>1. [job EXCEPT !.pc = "create"] \in Job /\ SoundJob([job EXCEPT !.pc = "create"])
    BY <1>1 DEF Job, SoundJob
  <2>2. QED
    BY <1>2, <1>4, <2>1, QuietServe
<1>5. CASE GoOn(s, Answer(job, FALSE, "keep"))
  BY <1>1, <1>2, <1>5, AnswerStep
<1>6. QED
  BY <1>3, <1>4, <1>5 DEF SignInRead

LEMMA SignInCreateStep ==
    ASSUME SessionsInv, NEW s \in Slots, SignInCreate(s)
    PROVE  SessionsInv'
<1> DEFINE job == jobs[s]
<1> DEFINE byGoogle == job.op = "google"
<1>1. job \in Job /\ job.user \in Accounts /\ job.tab \in Tabs /\ job.pc # "idle"
  BY JobFacts DEF SignInCreate, SoundJob
<1>2. UNCHANGED <<client, clicks, mishaps>>
  BY DEF SignInCreate
<1>3. CASE account[job.user] = "none"
  <2> DEFINE pc == IF byGoogle THEN "issue" ELSE "password"
  <2> DEFINE new == [Origin(job, job.user) EXCEPT !.pc = pc]
  <2>1. new \in Job /\ SoundJob(new)
    BY <1>1, OriginSound
  <2>2. GoOn(s, new) /\ UNCHANGED <<row, resets, ends>>
    BY <1>3 DEF SignInCreate
  <2>3. account' = [account EXCEPT ![job.user] = IF byGoogle THEN "google" ELSE "bare"]
    BY <1>3 DEF SignInCreate
  <2> HIDE DEF new
  <2>4. JobsSound'
    BY <2>1, <2>2, JobStep DEF JobsSound
  <2>5. ServerSound'
    BY <1>1, <2>2, <2>3, Parts DEF ServerSound, SoundRows
  <2>6. QED
    BY <1>2, <2>4, <2>5, Parts, PartsNext, ClientKept, CountsKept
<1>4. CASE GoOn(s, Answer(job, FALSE, "keep")) /\ UNCHANGED server
  BY <1>1, <1>2, <1>4, AnswerStep
<1>5. CASE Throw(s)
  BY <1>1, <1>2, <1>5, ThrowServe
<1>6. QED
  BY <1>3, <1>4, <1>5 DEF SignInCreate, Rejected

LEMMA SignInPasswordStep ==
    ASSUME SessionsInv, NEW s \in Slots, SignInPassword(s)
    PROVE  SessionsInv'
<1> DEFINE job == jobs[s]
<1> DEFINE new == [job EXCEPT !.pc = "issue"]
<1>1. job \in Job /\ SoundJob(job) /\ job.pc = "password"
  BY JobFacts DEF SignInPassword
<1>2. new \in Job /\ SoundJob(new)
  BY <1>1 DEF Job, SoundJob
<1>3. GoOn(s, new) /\ UNCHANGED <<row, resets, ends>>
      /\ account' = [account EXCEPT ![job.user] = "open"]
      /\ UNCHANGED <<client, clicks, mishaps>>
  BY DEF SignInPassword
<1> HIDE DEF new
<1>4. JobsSound'
  BY <1>2, <1>3, JobStep DEF JobsSound
<1>5. ServerSound'
  BY <1>3, Parts DEF ServerSound, SoundRows
<1>6. QED
  BY <1>3, <1>4, <1>5, Parts, PartsNext, ClientKept, CountsKept

\* A token is issued: the new row is sound because the request was.
LEMMA IssuedSound ==
    ASSUME SessionsInv, NEW s \in Slots, jobs[s].pc = "issue"
    PROVE  LET new == IssuedRow(jobs[s])
           IN  /\ new \in Row
               /\ new.user \in Accounts
               /\ ~new.raced => new.login = ends[new.user]
<1> DEFINE job == jobs[s]
<1>1. /\ job \in Job /\ job.user \in Accounts /\ job.seen \in Nat /\ job.raced \in BOOLEAN
      /\ job.login \in Nat
      /\ ~job.raced /\ job.seen = ends[job.user] => job.login = ends[job.user]
  BY JobFacts DEF SoundJob, Job
<1> DEFINE raced == job.raced \/ job.seen # ends[job.user]
<1>2. IssuedRow(job) = [Unused EXCEPT !.status = "live", !.user = job.user,
                                       !.login = job.login, !.raced = raced]
  BY DEF IssuedRow
<1>3. raced \in BOOLEAN
  BY <1>1
<1>4. ~raced => job.login = ends[job.user]
  BY <1>1
<1> HIDE DEF raced
<1>5. IssuedRow(job) = [status |-> "live", user |-> job.user, expired |-> FALSE,
                        login |-> job.login, raced |-> raced, uses |-> 0, contested |-> FALSE]
  BY <1>2 DEF Unused
<1>6. IssuedRow(job) \in Row
  BY <1>1, <1>3, <1>5 DEF Row
<1>7. /\ IssuedRow(job).user = job.user /\ IssuedRow(job).raced = raced
      /\ IssuedRow(job).login = job.login
  BY <1>5
<1>8. QED
  BY <1>1, <1>4, <1>6, <1>7

LEMMA IssueStep ==
    ASSUME SessionsInv, NEW s \in Slots, Issue(s)
    PROVE  SessionsInv'
<1> DEFINE job == jobs[s]
<1> DEFINE unused == {k \in TokenIds : row[k].status = "unused"}
<1> DEFINE k == CHOOSE x \in unused : TRUE
<1>1. job \in Job /\ job.tab \in Tabs /\ job.pc = "issue" /\ UNCHANGED <<client, clicks, mishaps>>
  BY JobFacts DEF Issue
<1>2. CASE account[job.user] \in Live
  <2> DEFINE new == IF job.op = "refresh"
                    THEN [job EXCEPT !.pc = "whoami", !.token = k]
                    ELSE Answer([job EXCEPT !.token = k], TRUE, "new")
  <2>1. unused # {} /\ row' = [row EXCEPT ![k] = IssuedRow(job)] /\ GoOn(s, new)
        /\ UNCHANGED <<account, resets, ends>>
    BY <1>2 DEF Issue
  <2>2. k \in TokenIds
    BY <2>1
  <2> HIDE DEF k, unused
  <2>3. [job EXCEPT !.token = k] \in Job /\ [job EXCEPT !.token = k].tab \in Tabs
    BY <1>1, <2>2 DEF Job
  <2>4. Quiet([job EXCEPT !.pc = "whoami", !.token = k])
    BY <1>1, <2>2 DEF Job, Quiet
  <2>5. Quiet(Answer([job EXCEPT !.token = k], TRUE, "new"))
    BY <2>3, AnswerIsQuiet
  <2>6. Quiet(new)
    BY <2>4, <2>5
  <2> HIDE DEF new
  <2>7. JobsSound'
    BY <2>1, <2>6, QuietStep DEF JobsSound
  <2> DEFINE r == IssuedRow(job)
  <2>8. r \in Row /\ r.user \in Accounts /\ (~r.raced => r.login = ends[r.user])
    BY <1>1, IssuedSound
  <2> HIDE DEF r
  <2>9. row' = [row EXCEPT ![k] = r]
    BY <2>1 DEF r
  <2>10. row \in [TokenIds -> Row] /\ SoundRows
    BY DEF SessionsInv, SessionsTypeOK
  <2>11. SoundRows'
    <3> SUFFICES ASSUME NEW x \in TokenIds, row'[x].status = "live"
                 PROVE  /\ row'[x].user \in Accounts
                        /\ ~row'[x].raced => row'[x].login = ends'[row'[x].user]
      BY DEF SoundRows
    <3>1. CASE x = k
      BY <2>1, <2>8, <2>9, <2>10, <3>1
    <3>2. CASE x # k
      BY <2>1, <2>9, <2>10, <3>2 DEF SoundRows
    <3>3. QED
      BY <3>1, <3>2
  <2>12. row' \in [TokenIds -> Row]
    BY <2>8, <2>9, <2>10
  <2>13. ServerSound'
    BY <2>1, <2>11, <2>12, Parts DEF ServerSound
  <2>14. QED
    BY <1>1, <2>7, <2>13, Parts, PartsNext, ClientKept, CountsKept
<1>3. CASE GoOn(s, Answer(job, FALSE, "keep")) /\ UNCHANGED server
  BY <1>1, <1>3, AnswerStep
<1>4. CASE Throw(s)
  BY <1>1, <1>4, ThrowServe
<1>5. QED
  BY <1>2, <1>3, <1>4 DEF Issue, Rejected

LEMMA RefreshReadStep ==
    ASSUME SessionsInv, NEW s \in Slots, RefreshRead(s)
    PROVE  SessionsInv'
<1> DEFINE job == jobs[s]
<1> DEFINE k == job.token
<1>1. job \in Job /\ SoundJob(job) /\ job.tab \in Tabs /\ job.pc = "sent"
      /\ k \in TokenIds \union {NoToken}
  BY JobFacts DEF RefreshRead, AtStep
<1>2. UNCHANGED <<account, resets, ends, client, clicks, mishaps>>
  BY DEF RefreshRead
<1>3. ServerSound'
  <2>1. CASE row' = row
    BY <1>2, <2>1, Parts DEF ServerSound, SoundRows
  <2>2. CASE k # NoToken /\ row' = [row EXCEPT ![k].contested = TRUE]
    <3>1. row \in [TokenIds -> Row] /\ k \in TokenIds
      BY <1>1, <2>2 DEF SessionsInv, SessionsTypeOK
    <3>2. row[k] \in Row
      BY <3>1
    <3>3. [row[k] EXCEPT !.contested = TRUE] \in Row
      BY <3>2 DEF Row
    <3>4. row' \in [TokenIds -> Row]
      BY <2>2, <3>1, <3>3
    <3>5. SoundRows'
      BY <1>2, <2>2, <3>1, <3>2, <3>4, RowStep DEF Row
    <3>6. QED
      BY <1>2, <3>4, <3>5, Parts DEF ServerSound
  <2>3. QED
    BY <2>1, <2>2 DEF RefreshRead
<1>4. ClientTyped'
  BY <1>2, Parts, ClientKept
<1>5. JobsSound'
  <2>1. ASSUME NEW set \in {"keep", "clear"}, GoOn(s, Answer(job, FALSE, set))
        PROVE  JobsSound'
    BY <1>1, <1>2, <2>1, AnswerIsQuiet, QuietStep DEF JobsSound
  <2>2. ASSUME k # NoToken, NEW new, GoOn(s, new), new = [job EXCEPT !.pc = "endAll", !.user = row[k].user]
        PROVE  JobsSound'
    <3>1. row[k].user \in Accounts \union {Nobody}
      BY <1>1, <2>2 DEF SessionsInv, SessionsTypeOK, Row
    <3>2. Quiet(new)
      BY <1>1, <2>2, <3>1 DEF Job, Quiet
    <3>3. QED
      BY <1>2, <2>2, <3>2, QuietStep DEF JobsSound
  <2>3. ASSUME k # NoToken, row[k].status = "live", NEW new, GoOn(s, new),
               new = [job EXCEPT !.pc = "rotate", !.user = row[k].user,
                                 !.login = row[k].login, !.raced = row[k].raced,
                                 !.seen = ends[row[k].user]]
        PROVE  JobsSound'
    <3> DEFINE u == row[k].user
    <3>1. /\ u \in Accounts /\ ends[u] \in Nat /\ row[k].login \in Nat /\ row[k].raced \in BOOLEAN
          /\ ~row[k].raced => row[k].login = ends[u]
      BY <1>1, <2>3 DEF SessionsInv, SessionsTypeOK, SoundRows, Row
    <3> HIDE DEF u
    <3>2. /\ new = [job EXCEPT !.pc = "rotate", !.user = u, !.login = row[k].login,
                               !.raced = row[k].raced, !.seen = ends[u]]
      BY <2>3 DEF u
    <3>3. /\ new \in Job /\ new.pc = "rotate" /\ new.user = u /\ new.login = row[k].login
          /\ new.raced = row[k].raced /\ new.seen = ends[u] /\ new.tab = job.tab
      BY <1>1, <3>1, <3>2 DEF Job
    <3>4. SoundJob(new)
      BY <1>1, <3>1, <3>3 DEF SoundJob
    <3>5. QED
      BY <1>2, <2>3, <3>3, <3>4, JobStep DEF JobsSound
  <2>4. QED
    BY <2>1, <2>2, <2>3 DEF RefreshRead, Unrevoked
<1>6. QED
  BY <1>2, <1>3, <1>4, <1>5, Parts, PartsNext, CountsKept

LEMMA RefreshRefusedStep ==
    ASSUME SessionsInv, NEW s \in Slots, RefreshRefused(s)
    PROVE  SessionsInv'
<1>1. jobs[s] \in Job /\ jobs[s].tab \in Tabs
  BY JobFacts DEF RefreshRefused, AtStep
<1>2. JobsSound'
  BY <1>1, AnswerIsQuiet, QuietStep DEF JobsSound, RefreshRefused, server
<1>3. Counted'
  BY Parts DEF Counted, RefreshRefused
<1>4. QED
  BY <1>2, <1>3, Parts, PartsNext, ServerKept, ClientKept DEF RefreshRefused

\* Some rows change but none becomes live: the server's part stays sound.
LEMMA RowsStep ==
    ASSUME SessionsInv, NEW f, row' = [k \in TokenIds |-> f[k]],
           UNCHANGED ends, account' \in [Accounts -> {"none", "bare", "open", "google", "deleted"}],
           resets' \subseteq Accounts,
           \A k \in TokenIds : f[k] = row[k] \/ (f[k] \in Row /\ f[k].status # "live")
    PROVE  ServerSound'
<1>1. \A k \in TokenIds : row[k] \in Row
  BY DEF SessionsInv, SessionsTypeOK
<1>2. row' \in [TokenIds -> Row]
  BY <1>1
<1>3. SoundRows'
  BY <1>2, RowStep
<1>4. ends' \in [Accounts -> Nat]
  BY DEF SessionsInv, SessionsTypeOK
<1>5. QED
  BY <1>2, <1>3, <1>4 DEF ServerSound

LEMMA RotateStep ==
    ASSUME SessionsInv, NEW s \in Slots, Rotate(s)
    PROVE  SessionsInv'
<1> DEFINE job == jobs[s]
<1> DEFINE k == job.token
<1>1. job \in Job /\ SoundJob(job) /\ job.pc = "rotate" /\ UNCHANGED <<client, clicks, mishaps>>
  BY JobFacts DEF Rotate, AtStep
<1>2. CASE row[k].status = "gone"
  BY <1>1, <1>2, ThrowServe DEF Rotate
<1>3. CASE row[k].status # "gone"
  <2> DEFINE new == [job EXCEPT !.pc = "issue"]
  <2>1. row' = [row EXCEPT ![k] = Exchanged(row[k])] /\ GoOn(s, new)
        /\ UNCHANGED <<account, resets, ends>>
    BY <1>3 DEF Rotate
  <2>2. new \in Job /\ SoundJob(new)
    BY <1>1 DEF Job, SoundJob
  <2> HIDE DEF new
  <2>3. JobsSound'
    BY <2>1, <2>2, JobStep DEF JobsSound
  <2> DEFINE f == [x \in TokenIds |-> IF x = k THEN Exchanged(row[x]) ELSE row[x]]
  <2>4. row \in [TokenIds -> Row]
    BY DEF SessionsInv, SessionsTypeOK
  <2>5. row' = [x \in TokenIds |-> f[x]]
    BY <2>1, <2>4
  <2>6. ASSUME NEW r \in Row
        PROVE  Exchanged(r) \in Row /\ Exchanged(r).status = "revoked"
    <3>1. r.uses + 1 \in Nat
      BY DEF Row
    <3>2. QED
      BY <3>1 DEF Row, Exchanged
  <2>7. \A x \in TokenIds : f[x] = row[x] \/ (f[x] \in Row /\ f[x].status # "live")
    BY <2>4, <2>6
  <2> HIDE DEF f
  <2>8. ServerSound'
    BY <2>1, <2>5, <2>7, RowsStep DEF SessionsInv, SessionsTypeOK
  <2>9. QED
    BY <1>1, <2>3, <2>8, Parts, PartsNext, ClientKept, CountsKept
<1>4. QED
  BY <1>2, <1>3

LEMMA WhoAmIStep ==
    ASSUME SessionsInv, NEW s \in Slots, WhoAmI(s)
    PROVE  SessionsInv'
<1> DEFINE known == account[jobs[s].user] \in Live
<1> DEFINE set == IF known THEN "new" ELSE "clear"
<1>1. GoOn(s, Answer(jobs[s], known, set)) /\ jobs[s].pc # "idle"
      /\ UNCHANGED <<server, client, clicks, mishaps>>
  BY DEF WhoAmI
<1>2. known \in BOOLEAN /\ set \in {"keep", "clear", "new"}
  OBVIOUS
<1> HIDE DEF known, set
<1>3. QED
  BY <1>1, <1>2, AnswerStep

LEMMA LogoutReadStep ==
    ASSUME SessionsInv, NEW s \in Slots, LogoutRead(s)
    PROVE  SessionsInv'
<1> DEFINE job == jobs[s]
<1> DEFINE k == job.token
<1> DEFINE user == IF job.bearer THEN job.user
                   ELSE IF k # NoToken /\ row[k].status # "gone" THEN row[k].user ELSE Nobody
<1> DEFINE new == [job EXCEPT !.pc = "endAll", !.user = user]
<1>1. job \in Job /\ job.tab \in Tabs /\ job.pc = "sent" /\ UNCHANGED <<server, client, clicks, mishaps>>
      /\ k \in TokenIds \union {NoToken} /\ job.user \in Accounts \union {Nobody}
  BY JobFacts DEF LogoutRead, AtStep
<1>2. CASE GoOn(s, Answer(job, TRUE, "clear"))
  BY <1>1, <1>2, AnswerStep
<1>3. CASE GoOn(s, new)
  <2>1. k # NoToken => row[k].user \in Accounts \union {Nobody}
    BY <1>1 DEF SessionsInv, SessionsTypeOK, Row
  <2>2. user \in Accounts \union {Nobody}
    BY <1>1, <2>1
  <2> HIDE DEF user
  <2>3. Quiet(new)
    BY <1>1, <2>2 DEF Quiet, Job
  <2> HIDE DEF new
  <2>4. QED
    BY <1>1, <1>3, <2>3, QuietIsSound, QuietServe DEF Quiet
<1> HIDE DEF user
<1>4. GoOn(s, IF user = Nobody THEN Answer(job, TRUE, "clear") ELSE new)
  BY Zenon DEF LogoutRead, user
<1> HIDE DEF new
<1>5. QED
  BY <1>2, <1>3, <1>4

LEMMA EndAllSessionsStep ==
    ASSUME SessionsInv, NEW s \in Slots, EndAllSessions(s)
    PROVE  SessionsInv'
<1> DEFINE job == jobs[s]
<1> DEFINE answer == Answer(job, job.op # "refresh", IF job.op = "delete" THEN "keep" ELSE "clear")
<1>1. job \in Job /\ job.tab \in Tabs
  BY JobFacts DEF EndAllSessions
<1>2. Quiet(answer)
  BY <1>1, AnswerIsQuiet
<1>3. EndAll(job.user) /\ GoOn(s, answer) /\ UNCHANGED <<account, resets, client, clicks, mishaps>>
  BY DEF EndAllSessions
<1> HIDE DEF answer
<1>4. JobsSound' /\ ServerSound'
  BY <1>2, <1>3, EndStep DEF JobsSound, ServerSound, SessionsInv, SessionsTypeOK
<1>5. QED
  BY <1>3, <1>4, Parts, PartsNext, ClientKept, CountsKept

LEMMA ForgotStep ==
    ASSUME SessionsInv, NEW u \in Accounts, Forgot(u)
    PROVE  SessionsInv'
<1>1. ServerSound'
  BY Parts DEF ServerSound, SoundRows, Forgot
<1>2. Counted'
  BY Parts DEF Counted, Forgot
<1>3. JobsSound'
  BY Parts DEF JobsSound, SoundJobs, SoundJob, Forgot
<1>4. QED
  BY <1>1, <1>2, <1>3, Parts, PartsNext, ClientKept DEF Forgot

\* A request that is about to commit.
LEMMA CommitIsQuiet ==
    ASSUME NEW job \in Job, job.tab \in Tabs
    PROVE  Quiet([job EXCEPT !.pc = "commit"])
  BY DEF Quiet, Job

LEMMA ResetReadStep ==
    ASSUME SessionsInv, NEW s \in Slots, ResetRead(s)
    PROVE  SessionsInv'
<1>1. jobs[s] \in Job /\ jobs[s].tab \in Tabs /\ jobs[s].pc # "idle"
  BY JobFacts DEF ResetRead, AtStep
<1>2. QED
  BY <1>1, CommitIsQuiet, QuietIsSound, QuietServe, AnswerStep DEF ResetRead, Quiet

LEMMA DeleteReadStep ==
    ASSUME SessionsInv, NEW s \in Slots, DeleteRead(s)
    PROVE  SessionsInv'
<1>1. jobs[s] \in Job /\ jobs[s].tab \in Tabs /\ jobs[s].pc # "idle"
  BY JobFacts DEF DeleteRead, AtStep
<1>2. QED
  BY <1>1, CommitIsQuiet, QuietIsSound, QuietServe, AnswerStep DEF DeleteRead, Quiet

LEMMA ResetCommitStep ==
    ASSUME SessionsInv, NEW s \in Slots, ResetCommit(s)
    PROVE  SessionsInv'
<1> DEFINE job == jobs[s]
<1>1. job \in Job /\ job.tab \in Tabs /\ job.pc # "idle" /\ UNCHANGED <<client, clicks, mishaps>>
  BY JobFacts DEF ResetCommit, AtStep
<1>2. CASE Throw(s)
  BY <1>1, <1>2, ThrowServe
<1>3. CASE /\ resets' = resets \ {job.user} /\ EndAll(job.user)
           /\ GoOn(s, Answer(job, TRUE, "clear")) /\ UNCHANGED account
  <2>1. Quiet(Answer(job, TRUE, "clear"))
    BY <1>1, AnswerIsQuiet
  <2>2. JobsSound' /\ ServerSound'
    BY <1>3, <2>1, EndStep DEF JobsSound, ServerSound, SessionsInv, SessionsTypeOK
  <2>3. QED
    BY <1>1, <2>2, Parts, PartsNext, ClientKept, CountsKept
<1>4. QED
  BY <1>2, <1>3 DEF ResetCommit

LEMMA EndSessionCallStep ==
    ASSUME SessionsInv, NEW t \in Tabs, NEW k \in TokenIds, EndSessionCall(t, k)
    PROVE  SessionsInv'
<1> DEFINE request == Request("endSession", t, auth[t].user)
<1>1. PICK s \in Slots : GoOn(s, [request EXCEPT !.token = k])
  BY DEF EndSessionCall
<1>2. SessionsTypeOK /\ auth[t].user \in Accounts \union {Nobody}
  BY DEF SessionsInv, SessionsTypeOK, Auth
<1>3. request \in Job /\ request.pc = "sent" /\ request.op = "endSession" /\ request.tab = t
  BY <1>2, RequestType DEF Ops
<1> HIDE DEF request
<1> DEFINE new == [request EXCEPT !.token = k]
<1>4. new \in Job /\ new.pc = "sent" /\ new.op = "endSession" /\ new.tab = t
  BY <1>3 DEF Job
<1> HIDE DEF new
<1>5. SoundJob(new)
  BY <1>4 DEF SoundJob
<1>6. GoOn(s, new)
  BY <1>1 DEF new
<1>7. JobsSound'
  BY <1>4, <1>5, <1>6, JobStep DEF JobsSound, EndSessionCall, server
<1>8. Counted'
  BY Parts DEF Counted, EndSessionCall
<1>9. QED
  BY <1>7, <1>8, Parts, PartsNext, ServerKept, ClientKept DEF EndSessionCall

LEMMA EndSessionStep ==
    ASSUME SessionsInv, NEW s \in Slots, EndSession(s)
    PROVE  SessionsInv'
<1> DEFINE job == jobs[s]
<1> DEFINE k == job.token
<1>1. job \in Job /\ job.tab \in Tabs /\ job.pc # "idle" /\ UNCHANGED <<client, clicks, mishaps>>
  BY JobFacts DEF EndSession, AtStep
<1>2. CASE /\ row' = [row EXCEPT ![k].status = "revoked"]
           /\ GoOn(s, Answer(job, TRUE, "keep"))
           /\ UNCHANGED <<account, resets, ends>>
  <2>1. JobsSound'
    BY <1>1, <1>2, AnswerIsQuiet, QuietStep DEF JobsSound
  <2> DEFINE f == [x \in TokenIds |-> IF x = k THEN [row[x] EXCEPT !.status = "revoked"] ELSE row[x]]
  <2>2. row \in [TokenIds -> Row]
    BY DEF SessionsInv, SessionsTypeOK
  <2>3. row' = [x \in TokenIds |-> f[x]]
    BY <1>2, <2>2
  <2>4. \A r \in Row : [r EXCEPT !.status = "revoked"] \in Row
                       /\ [r EXCEPT !.status = "revoked"].status = "revoked"
    BY DEF Row
  <2>5. \A x \in TokenIds : f[x] = row[x] \/ (f[x] \in Row /\ f[x].status # "live")
    BY <2>2, <2>4
  <2> HIDE DEF f
  <2>6. ServerSound'
    BY <1>2, <2>3, <2>5, RowsStep DEF SessionsInv, SessionsTypeOK
  <2>7. QED
    BY <1>1, <2>1, <2>6, Parts, PartsNext, ClientKept, CountsKept
<1>3. CASE GoOn(s, Answer(job, FALSE, "keep")) /\ UNCHANGED server
  BY <1>1, <1>3, AnswerStep
<1>4. CASE Throw(s)
  BY <1>1, <1>4, ThrowServe
<1>5. QED
  BY <1>2, <1>3, <1>4 DEF EndSession

\* Deleted rows are not live.
LEMMA DropStep ==
    ASSUME SessionsInv, NEW doomed, row' = Dropped(doomed), UNCHANGED ends,
           account' \in [Accounts -> {"none", "bare", "open", "google", "deleted"}],
           resets' \subseteq Accounts
    PROVE  ServerSound'
<1> DEFINE f == [k \in TokenIds |-> IF k \in doomed THEN [row[k] EXCEPT !.status = "gone"] ELSE row[k]]
<1>1. row \in [TokenIds -> Row]
  BY DEF SessionsInv, SessionsTypeOK
<1>2. row' = [k \in TokenIds |-> f[k]]
  BY DEF Dropped
<1>3. \A r \in Row : [r EXCEPT !.status = "gone"] \in Row
                     /\ [r EXCEPT !.status = "gone"].status = "gone"
  BY DEF Row
<1>4. \A k \in TokenIds : f[k] = row[k] \/ (f[k] \in Row /\ f[k].status # "live")
  BY <1>1, <1>3
<1> HIDE DEF f
<1>5. QED
  BY <1>2, <1>4, RowsStep

LEMMA DeleteCommitStep ==
    ASSUME SessionsInv, NEW s \in Slots, DeleteCommit(s)
    PROVE  SessionsInv'
<1> DEFINE job == jobs[s]
<1> DEFINE u == job.user
<1> DEFINE new == [job EXCEPT !.pc = "endAll"]
<1>1. job \in Job /\ job.tab \in Tabs /\ job.pc # "idle" /\ UNCHANGED <<client, clicks, mishaps>>
  BY JobFacts DEF DeleteCommit, AtStep
<1>2. CASE Throw(s)
  BY <1>1, <1>2, ThrowServe
<1>3. CASE /\ account' = [account EXCEPT ![u] = "deleted"]
           /\ row' = Dropped({k \in TokenIds : row[k].user = u})
           /\ resets' = resets \ {u}
           /\ GoOn(s, new)
           /\ UNCHANGED ends
  <2>1. Quiet(new)
    BY <1>1 DEF Quiet, Job
  <2> HIDE DEF new
  <2>2. JobsSound'
    BY <1>3, <2>1, QuietStep DEF JobsSound
  <2>3. account' \in [Accounts -> {"none", "bare", "open", "google", "deleted"}]
        /\ resets' \subseteq Accounts
    BY <1>3 DEF SessionsInv, SessionsTypeOK
  <2>4. ServerSound'
    BY <1>3, <2>3, DropStep
  <2>5. QED
    BY <1>1, <2>2, <2>4, Parts, PartsNext, ClientKept, CountsKept
<1>4. QED
  BY <1>2, <1>3 DEF DeleteCommit

LEMMA CleanupStep ==
    ASSUME SessionsInv, Cleanup
    PROVE  SessionsInv'
<1>1. ServerSound'
  BY DropStep DEF Cleanup, SessionsInv, SessionsTypeOK
<1>2. JobsSound'
  BY Parts DEF JobsSound, SoundJobs, SoundJob, Cleanup
<1>3. QED
  BY <1>1, <1>2, Parts, PartsNext, ClientKept, CountsKept DEF Cleanup

-----------------------------------------------------------------------------
(* The web client *)

\* The tab forgets its account and may send a logout.
LEMMA ClientLogoutStep ==
    ASSUME SessionsInv, NEW t \in Tabs, NEW s \in Slots, NEW k \in TokenIds \union {NoToken},
           ClientLogout(t, s, k), UNCHANGED ends
    PROVE  /\ JobsSound'
           /\ auth' \in [Tabs -> Auth] /\ saved' \in [Browsers -> Auth]
<1> DEFINE request == Request("logout", t, auth[t].user)
<1> DEFINE new == [request EXCEPT !.token = k]
<1>1. SessionsTypeOK /\ auth[t].user \in Accounts \union {Nobody}
  BY DEF SessionsInv, SessionsTypeOK, Auth
<1>2. request \in Job /\ request.pc = "sent" /\ request.op = "logout" /\ request.tab = t
  BY <1>1, RequestType DEF Ops
<1>3. GoOn(s, IF auth[t].user = Nobody THEN Free ELSE new)
  BY DEF ClientLogout
<1> HIDE DEF request
<1>4. new \in Job /\ new.pc = "sent" /\ new.op = "logout" /\ new.tab = t
  BY <1>2 DEF Job
<1> HIDE DEF new
<1>5. SoundJob(new)
  BY <1>4 DEF SoundJob
<1>6. JobsSound'
  BY <1>3, <1>4, <1>5, FreeIsQuiet, JobStep, QuietStep DEF JobsSound
<1>7. NoAuth \in Auth
  BY DEF NoAuth, Auth
<1>8. auth' \in [Tabs -> Auth] /\ saved' \in [Browsers -> Auth]
  BY <1>7 DEF ClientLogout, SessionsInv, SessionsTypeOK
<1>9. QED
  BY <1>6, <1>8

LEMMA LogoutClickStep ==
    ASSUME SessionsInv, NEW t \in Tabs, LogoutClick(t)
    PROVE  SessionsInv'
<1>1. cookie[BrowserOf[t]] \in TokenIds \union {NoToken}
  BY SessionsAssumption DEF SessionsInv, SessionsTypeOK
<1>2. UNCHANGED <<server, cookie, upset, mishaps>> /\ UNCHANGED ends
  BY DEF LogoutClick, server
<1>3. JobsSound' /\ auth' \in [Tabs -> Auth] /\ saved' \in [Browsers -> Auth]
  BY <1>1, <1>2, ClientLogoutStep DEF LogoutClick
<1>4. ClientTyped'
  BY <1>2, <1>3, Parts DEF ClientTyped
<1>5. Counted'
  BY Parts DEF Counted, LogoutClick
<1>6. QED
  BY <1>2, <1>3, <1>4, <1>5, Parts, PartsNext, ServerKept

\* What the client sends after a failed request, if anything.
LEMMA AfterFailureSound ==
    ASSUME SessionsInv, NEW job \in Job, job.tab \in Tabs
    PROVE  AfterFailure(job) \in Job /\ SoundJob(AfterFailure(job))
<1> DEFINE request == Request("refresh", job.tab, auth[job.tab].user)
<1>1. SessionsTypeOK /\ auth[job.tab].user \in Accounts \union {Nobody}
  BY DEF SessionsInv, SessionsTypeOK, Auth
<1>2. request \in Job /\ SoundJob(request)
  BY <1>1, RequestType, RequestSound DEF Ops
<1>3. Free \in Job /\ SoundJob(Free)
  BY FreeIsQuiet, QuietIsSound DEF Quiet
<1> HIDE DEF request
<1>4. AfterFailure(job) = request \/ AfterFailure(job) = Free
  BY DEF AfterFailure, request
<1>5. QED
  BY <1>2, <1>3, <1>4

LEMMA HeardStep ==
    ASSUME SessionsInv, NEW s \in Slots, Heard(s)
    PROVE  SessionsInv'
<1> DEFINE job == jobs[s]
<1> DEFINE t == job.tab
<1> DEFINE after == CookieAfter(job)
<1>1. job \in Job /\ t \in Tabs /\ job.user \in Accounts \union {Nobody}
      /\ job.token \in TokenIds \union {NoToken} /\ job.pc # "idle"
  BY JobFacts DEF Heard
<1>2. BrowserOf[t] \in Browsers
  BY <1>1, SessionsAssumption
<1>3. after \in TokenIds \union {NoToken}
  <2>1. cookie[BrowserOf[t]] \in TokenIds \union {NoToken}
    BY <1>2 DEF SessionsInv, SessionsTypeOK
  <2>2. QED
    BY <1>1, <2>1 DEF CookieAfter
<1> HIDE DEF after
<1>4. cookie' = [cookie EXCEPT ![BrowserOf[t]] = after] /\ UNCHANGED <<server, upset, clicks, mishaps>>
  BY DEF Heard, after
<1>5. UNCHANGED ends
  BY <1>4 DEF server
<1>6. JobsSound' /\ auth' \in [Tabs -> Auth] /\ saved' \in [Browsers -> Auth]
  <2>1. CASE SetAuth(t, job.user) /\ GoOn(s, Free)
    <3>1. JobsSound'
      BY <1>5, <2>1, FreeIsQuiet, QuietStep DEF JobsSound
    <3>2. [user |-> job.user, fresh |-> TRUE] \in Auth
      BY <1>1 DEF Auth
    <3>3. QED
      BY <2>1, <3>1, <3>2 DEF SetAuth, SessionsInv, SessionsTypeOK
  <2>2. CASE ClientLogout(t, s, after)
    BY <1>1, <1>3, <1>5, <2>2, ClientLogoutStep
  <2>3. CASE GoOn(s, IF job.ok THEN Free ELSE AfterFailure(job)) /\ UNCHANGED <<saved, auth>>
    <3>1. CASE GoOn(s, Free)
      BY <1>5, <2>3, <3>1, FreeIsQuiet, QuietStep DEF JobsSound, SessionsInv, SessionsTypeOK
    <3>2. CASE GoOn(s, AfterFailure(job))
      BY <1>1, <1>5, <2>3, <3>2, AfterFailureSound, JobStep
         DEF JobsSound, SessionsInv, SessionsTypeOK
    <3>3. QED
      BY <2>3, <3>1, <3>2
  <2>4. QED
    BY <2>1, <2>2, <2>3 DEF Heard, after
<1>7. ClientTyped'
  BY <1>3, <1>4, <1>6, Parts DEF ClientTyped
<1>8. QED
  BY <1>4, <1>6, <1>7, Parts, PartsNext, ServerKept, CountsKept

LEMMA UnheardStep ==
    ASSUME SessionsInv, NEW s \in Slots, Unheard(s)
    PROVE  SessionsInv'
  BY FreeIsQuiet, QuietIsSound, QuietServe DEF Unheard, Quiet

LEMMA LostStep ==
    ASSUME SessionsInv, NEW s \in Slots, Lost(s)
    PROVE  SessionsInv'
<1> DEFINE job == jobs[s]
<1> DEFINE t == job.tab
<1>1. t \in Tabs
  BY JobFacts DEF Lost
<1>2. BrowserOf[t] \in Browsers
  BY <1>1, SessionsAssumption
<1>3. cookie[BrowserOf[t]] \in TokenIds \union {NoToken}
  BY <1>2 DEF SessionsInv, SessionsTypeOK
<1>4. upset' = upset \union {BrowserOf[t]} /\ UNCHANGED <<server, cookie, clicks, mishaps>>
  BY DEF Lost
<1>5. UNCHANGED ends
  BY <1>4 DEF server
<1>6. JobsSound' /\ auth' \in [Tabs -> Auth] /\ saved' \in [Browsers -> Auth]
  <2>1. CASE ClientLogout(t, s, cookie[BrowserOf[t]])
    BY <1>1, <1>3, <1>5, <2>1, ClientLogoutStep
  <2>2. CASE GoOn(s, Free) /\ UNCHANGED <<saved, auth>>
    BY <1>5, <2>2, FreeIsQuiet, QuietStep DEF JobsSound, SessionsInv, SessionsTypeOK
  <2>3. QED
    BY <2>1, <2>2 DEF Lost
<1>7. ClientTyped'
  BY <1>2, <1>4, <1>6, Parts DEF ClientTyped
<1>8. QED
  BY <1>4, <1>6, <1>7, Parts, PartsNext, ServerKept, CountsKept

\* One more mishap.
LEMMA MishapCounted ==
    ASSUME SessionsInv, Mishap, UNCHANGED clicks
    PROVE  Counted'
  BY Parts DEF Counted, Mishap

LEMMA LoseAnswerStep ==
    ASSUME SessionsInv, NEW s \in Slots, LoseAnswer(s)
    PROVE  SessionsInv'
<1>1. Quiet(Broken(jobs[s]))
  BY JobFacts, BrokenIsQuiet DEF LoseAnswer
<1>2. JobsSound'
  BY <1>1, QuietStep DEF JobsSound, LoseAnswer, server
<1>3. QED
  BY <1>2, MishapCounted, Parts, PartsNext, ServerKept, ClientKept DEF LoseAnswer

LEMMA CrashStep ==
    ASSUME SessionsInv, Crash
    PROVE  SessionsInv'
<1> DEFINE f == [x \in Slots |-> IF jobs[x].pc = "idle" THEN Free ELSE Broken(jobs[x])]
<1>1. jobs' = [x \in Slots |-> f[x]] /\ \A x \in Slots : Quiet(f[x])
  BY JobFacts, BrokenIsQuiet, FreeIsQuiet DEF Crash
<1> HIDE DEF f
<1>2. JobsSound'
  BY <1>1, GiveUp DEF Crash, JobsSound, server
<1>3. QED
  BY <1>2, MishapCounted, Parts, PartsNext, ServerKept, ClientKept DEF Crash

\* Requests of the tab are given up or go on unheard.
LEMMA ReloadStep ==
    ASSUME SessionsInv, NEW t \in Tabs, Reload(t)
    PROVE  SessionsInv'
<1> DEFINE mine(s) == jobs[s].pc # "idle" /\ jobs[s].heard /\ jobs[s].tab = t
<1> DEFINE unheard(s) == [jobs[s] EXCEPT !.heard = FALSE]
<1>1. BrowserOf[t] \in Browsers
  BY SessionsAssumption
<1>2. ClientTyped'
  <2>1. auth' \in [Tabs -> Auth]
    BY <1>1 DEF Reload, SessionsInv, SessionsTypeOK
  <2>2. upset' \subseteq Browsers
    BY <1>1 DEF Reload, SessionsInv, SessionsTypeOK
  <2>3. QED
    BY <2>1, <2>2, Parts DEF Reload, ClientTyped
<1>3. UNCHANGED server /\ UNCHANGED ends
  BY DEF Reload, server
<1>4. jobs' = [s \in Slots |-> IF ~mine(s) THEN jobs[s]
                               ELSE IF jobs[s].pc = "lost" THEN Free ELSE unheard(s)]
  BY DEF Reload
<1>5. ASSUME NEW s \in Slots
      PROVE  unheard(s) \in Job /\ SoundJob(unheard(s))
  <2>1. jobs[s] \in Job /\ SoundJob(jobs[s])
    BY JobFacts
  <2>2. /\ unheard(s) \in Job /\ unheard(s).pc = jobs[s].pc /\ unheard(s).op = jobs[s].op
        /\ unheard(s).user = jobs[s].user /\ unheard(s).tab = jobs[s].tab
        /\ unheard(s).login = jobs[s].login /\ unheard(s).seen = jobs[s].seen
        /\ unheard(s).raced = jobs[s].raced
    BY <2>1 DEF Job
  <2> HIDE DEF unheard
  <2>3. QED
    BY <2>1, <2>2 DEF SoundJob
<1>6. \A s \in Slots : jobs[s] \in Job /\ SoundJob(jobs[s])
  BY JobFacts
<1>7. Free \in Job /\ SoundJob(Free)
  BY FreeIsQuiet, QuietIsSound DEF Quiet
<1> HIDE DEF unheard, mine
<1>8. \A s \in Slots : jobs'[s] \in Job /\ SoundJob(jobs'[s])
  BY <1>4, <1>5, <1>6, <1>7
<1>9. JobsSound'
  BY <1>3, <1>4, <1>8 DEF JobsSound, SoundJobs, SoundJob
<1>10. QED
  BY <1>2, <1>3, <1>9, MishapCounted, Parts, PartsNext, ServerKept DEF Reload

LEMMA AccessExpiresStep ==
    ASSUME SessionsInv, AccessExpires
    PROVE  SessionsInv'
<1>1. UNCHANGED <<server, jobs, cookie, upset, clicks, mishaps>> /\ UNCHANGED ends
  BY DEF AccessExpires, server
<1>2. \A a \in Auth : [a EXCEPT !.fresh = FALSE] \in Auth
  BY DEF Auth
<1>3. ClientTyped'
  BY <1>1, <1>2, Parts DEF ClientTyped, AccessExpires
<1>4. JobsSound'
  BY <1>1, Parts DEF JobsSound, SoundJobs, SoundJob
<1>5. QED
  BY <1>1, <1>3, <1>4, Parts, PartsNext, ServerKept, CountsKept

LEMMA CookieExpiresStep ==
    ASSUME SessionsInv, NEW b \in Browsers, CookieExpires(b)
    PROVE  SessionsInv'
<1>1. UNCHANGED <<server, jobs, saved, auth, upset, clicks, mishaps>> /\ UNCHANGED ends
  BY DEF CookieExpires, server
<1>2. ClientTyped'
  BY <1>1, Parts DEF ClientTyped, CookieExpires
<1>3. JobsSound'
  BY <1>1, Parts DEF JobsSound, SoundJobs, SoundJob
<1>4. QED
  BY <1>1, <1>2, <1>3, Parts, PartsNext, ServerKept, CountsKept

LEMMA TokenExpiresStep ==
    ASSUME SessionsInv, NEW k \in TokenIds, TokenExpires(k)
    PROVE  SessionsInv'
<1>1. row \in [TokenIds -> Row] /\ row' = [row EXCEPT ![k].expired = TRUE]
      /\ UNCHANGED <<account, resets, ends, jobs, client, clicks>>
  BY DEF SessionsInv, SessionsTypeOK, TokenExpires
<1> DEFINE r == [row[k] EXCEPT !.expired = TRUE]
<1>2. r \in Row /\ r.status = row[k].status /\ r.user = row[k].user
      /\ r.login = row[k].login /\ r.raced = row[k].raced
  BY <1>1 DEF Row
<1>3. row' = [row EXCEPT ![k] = r]
  BY <1>1
<1> HIDE DEF r
<1>4. row' \in [TokenIds -> Row]
  BY <1>1, <1>2, <1>3
<1>5. SoundRows'
  BY <1>1, <1>2, <1>3, <1>4, RowStep
<1>6. ServerSound'
  BY <1>1, <1>4, <1>5, Parts DEF ServerSound
<1>7. JobsSound'
  BY <1>1, Parts DEF JobsSound, SoundJobs, SoundJob
<1>8. QED
  BY <1>1, <1>6, <1>7, MishapCounted, Parts, PartsNext, ClientKept DEF TokenExpires

-----------------------------------------------------------------------------
(* The invariant *)

\* A user asks for something in a tab.
LEMMA AskStep ==
    ASSUME SessionsInv, NEW t \in Tabs, Ask(t)
    PROVE  SessionsInv'
<1>1. auth[t].user \in Accounts \union {Nobody}
  BY DEF SessionsInv, SessionsTypeOK, Auth
<1>2. ASSUME NEW u \in Accounts, NEW way \in {"login", "register", "google"}, SignInCall(t, u, way)
      PROVE  SessionsInv'
  BY <1>2, ClickStep DEF SignInCall, Ops
<1>3. ASSUME NEW u \in Accounts, ResetCall(t, u)
      PROVE  SessionsInv'
  BY <1>3, ClickStep DEF ResetCall, Ops
<1>4. CASE RefreshCall(t)
  BY <1>1, <1>4, ClickStep DEF RefreshCall, Ops
<1>5. CASE DeleteCall(t)
  BY <1>1, <1>5, ClickStep DEF DeleteCall, Ops
<1>6. QED
  BY <1>2, <1>3, <1>4, <1>5, LogoutClickStep, ReloadStep, EndSessionCallStep DEF Ask

\* A request goes on.
LEMMA ServeStep ==
    ASSUME SessionsInv, NEW s \in Slots, Serve(s)
    PROVE  SessionsInv'
  BY SignInReadStep, SignInCreateStep, SignInPasswordStep, IssueStep, RefreshReadStep,
     RotateStep, WhoAmIStep, LogoutReadStep, EndAllSessionsStep, ResetReadStep,
     ResetCommitStep, EndSessionStep, DeleteReadStep, DeleteCommitStep, HeardStep,
     UnheardStep, LostStep
     DEF Serve

LEMMA InitSound == SessionsInit => SessionsInv
<1> SUFFICES ASSUME SessionsInit PROVE SessionsInv
  OBVIOUS
<1> DEFINE first == CHOOSE k \in TokenIds : TRUE
<1>1. first \in TokenIds
  BY SessionsAssumption
<1> HIDE DEF first
<1>2. Unused \in Row /\ Unused.status = "unused"
  BY DEF Unused, Row
<1>3. ASSUME NEW u \in Accounts
      PROVE  /\ [Unused EXCEPT !.status = "live", !.user = u] \in Row
             /\ [Unused EXCEPT !.status = "live", !.user = u].user = u
             /\ [Unused EXCEPT !.status = "live", !.user = u].login = 0
  BY DEF Unused, Row
<1>4. NoAuth \in Auth /\ \A u \in Accounts : [user |-> u, fresh |-> TRUE] \in Auth
  BY DEF NoAuth, Auth
<1>5. ends = [u \in Accounts |-> 0]
  BY DEF SessionsInit
<1>6. JobsSound
  BY FreeIsQuiet, QuietIsSound DEF SessionsInit, JobsSound, SoundJobs, Quiet
<1>7. Counted
  BY DEF SessionsInit, Counted
<1>8. auth = [t \in Tabs |-> saved[BrowserOf[t]]] /\ upset = {} /\ resets = {}
  BY DEF SessionsInit
<1>9. CASE NewAccount
  <2>1. ServerSound
    BY <1>2, <1>5, <1>8, <1>9 DEF NewAccount, ServerSound, SoundRows
  <2>2. ClientTyped
    BY <1>4, <1>8, <1>9, SessionsAssumption DEF NewAccount, ClientTyped
  <2>3. QED
    BY <1>6, <1>7, <2>1, <2>2, Parts
<1>10. ASSUME NEW u \in Accounts, NEW b \in Browsers, SignedIn(u, b, first)
       PROVE  SessionsInv
  <2> DEFINE r == [Unused EXCEPT !.status = "live", !.user = u]
  <2>1. r \in Row /\ r.user = u /\ r.login = 0
    BY <1>3
  <2>2. row = [x \in TokenIds |-> IF x = first THEN r ELSE Unused]
    BY <1>10 DEF SignedIn
  <2> HIDE DEF r
  <2>3. row \in [TokenIds -> Row]
    BY <1>2, <2>1, <2>2
  <2>4. SoundRows
    BY <1>2, <1>5, <2>1, <2>2 DEF SoundRows
  <2>5. ServerSound
    BY <1>5, <1>8, <1>10, <2>3, <2>4 DEF SignedIn, ServerSound
  <2>6. ClientTyped
    BY <1>1, <1>4, <1>8, <1>10, SessionsAssumption DEF SignedIn, ClientTyped
  <2>7. QED
    BY <1>6, <1>7, <2>5, <2>6, Parts
<1>11. QED
  BY <1>9, <1>10 DEF SessionsInit, first

LEMMA NextSound == SessionsInv /\ [SessionsNext]_sessionsVars => SessionsInv'
<1> SUFFICES ASSUME SessionsInv, [SessionsNext]_sessionsVars PROVE SessionsInv'
  OBVIOUS
<1>1. CASE SessionsNext
  BY <1>1, ServeStep, RefreshRefusedStep, LoseAnswerStep, AskStep, ForgotStep,
     TokenExpiresStep, CookieExpiresStep, CleanupStep, AccessExpiresStep, CrashStep
     DEF SessionsNext
<1>2. CASE UNCHANGED sessionsVars
  <2>1. UNCHANGED server /\ UNCHANGED client /\ UNCHANGED <<clicks, mishaps>>
        /\ UNCHANGED jobs /\ UNCHANGED ends
    BY <1>2 DEF sessionsVars, server
  <2>2. JobsSound'
    BY <2>1, Parts DEF JobsSound, SoundJobs, SoundJob
  <2>3. QED
    BY <2>1, <2>2, Parts, PartsNext, ServerKept, ClientKept, CountsKept
<1>3. QED
  BY <1>1, <1>2

\* Type correctness: whatever the handlers, the tabs and the mishaps do, every
\* row, request, cookie and stored account stays one.
THEOREM SessionsTypeCorrect == SessionsSpec => []SessionsTypeOK
<1>1. SessionsInv => SessionsTypeOK
  BY DEF SessionsInv
<1>2. QED
  BY <1>1, InitSound, NextSound, PTL DEF SessionsSpec

\* What a logout, a password reset or the reuse of an exchanged token ended
\* stays ended, however the awaits of rotateRefreshToken, issueRefreshToken and
\* revokeAllRefreshTokens interleave: a live token comes from a login since
\* then, unless its issue was already under way.
THEOREM EndedStayEnded == SessionsSpec => []EndedSessionsStayEnded
<1>1. SessionsInv => EndedSessionsStayEnded
  BY DEF SessionsInv, SoundRows, EndedSessionsStayEnded
<1>2. QED
  BY <1>1, InitSound, NextSound, PTL DEF SessionsSpec

-----------------------------------------------------------------------------
(***************************************************************************)
(* A refresh token is exchanged once (SingleUse), for any number of        *)
(* accounts, tabs, browsers, requests and tokens.  Only three steps touch  *)
(* exchanges: reading a token that is live (RefreshRead), exchanging it    *)
(* (Rotate), and giving an unused token out (Issue).  All other steps are  *)
(* mild: they let no further request exchange anything, use no token and   *)
(* bring none back to life.                                                *)
(***************************************************************************)

\* Request s has found token k live and will exchange it.
Exchanging(s, k) == AtStep(s, "refresh", "rotate") /\ jobs[s].token = k

\* Of a token that is not contested: at most one request is exchanging it, it
\* has not been exchanged before, and once exchanged it is not live any more.
UseSound(k) ==
    ~row[k].contested =>
        /\ row[k].uses <= 1
        /\ row[k].status \in {"unused", "live"} => row[k].uses = 0
        /\ \A s \in Slots : Exchanging(s, k) => row[k].uses = 0
        /\ \A s, x \in Slots : Exchanging(s, k) /\ Exchanging(x, k) => s = x

\* A token that was never given out is not being exchanged.
UnusedIsFree(k) == row[k].status = "unused" => \A s \in Slots : ~Exchanging(s, k)

UseInv == \A k \in TokenIds : UseSound(k) /\ UnusedIsFree(k)

-----------------------------------------------------------------------------
(* Mild steps *)

MildRows ==
    \A k \in TokenIds :
        /\ row'[k].uses = row[k].uses
        /\ row[k].contested => row'[k].contested
        /\ row'[k].status = row[k].status \/ row'[k].status \in {"revoked", "gone"}

MildJobs == \A s \in Slots, k \in TokenIds : Exchanging(s, k)' => Exchanging(s, k)

LEMMA MildStep ==
    ASSUME UseInv, MildRows, MildJobs
    PROVE  UseInv'
<1> SUFFICES ASSUME NEW k \in TokenIds PROVE UseSound(k)' /\ UnusedIsFree(k)'
  BY DEF UseInv
<1>1. /\ row'[k].uses = row[k].uses
      /\ row[k].contested => row'[k].contested
      /\ row'[k].status \in {"unused", "live"} => row'[k].status = row[k].status
  BY DEF MildRows
<1>2. \A s \in Slots : Exchanging(s, k)' => Exchanging(s, k)
  BY DEF MildJobs
<1>3. UseSound(k) /\ UnusedIsFree(k)
  BY DEF UseInv
<1>4. UseSound(k)'
  BY <1>1, <1>2, <1>3 DEF UseSound
<1>5. UnusedIsFree(k)'
  BY <1>1, <1>2, <1>3 DEF UnusedIsFree
<1>6. QED
  BY <1>4, <1>5

LEMMA RowsStay == UNCHANGED row => MildRows
  BY DEF MildRows

LEMMA JobsStay == UNCHANGED jobs => MildJobs
  BY DEF MildJobs, Exchanging, AtStep

\* A place gets a request that is not exchanging.
LEMMA GoOnIsMild ==
    ASSUME SessionsTypeOK, NEW s \in Slots, NEW job, job.pc # "rotate", GoOn(s, job)
    PROVE  MildJobs
<1>1. \A x \in Slots : jobs'[x] = IF x = s THEN job ELSE jobs[x]
  BY DEF SessionsTypeOK, GoOn
<1>2. QED
  BY <1>1 DEF MildJobs, Exchanging, AtStep

\* What the requests that are not exchanging look like.
LEMMA NotExchanging ==
    /\ Free.pc = "idle"
    /\ \A op, t, u : Request(op, t, u).pc = "sent"
    /\ \A job, ok, set : Answer(job, ok, set).pc = "answer"
    /\ \A job : Broken(job).pc \in {"idle", "lost"}
  BY DEF Free, Request, Answer, Broken

LEMMA AnswerIsMild ==
    ASSUME SessionsTypeOK, NEW s \in Slots, NEW job, NEW ok, NEW set,
           GoOn(s, Answer(job, ok, set))
    PROVE  MildJobs
<1>1. Answer(job, ok, set).pc # "rotate"
  BY NotExchanging
<1>2. QED
  BY <1>1, GoOnIsMild

\* A request goes on to a step that is not the exchange.
LEMMA MovesOnIsMild ==
    ASSUME SessionsTypeOK, NEW s \in Slots, NEW job \in Job, NEW pc, pc # "rotate",
           GoOn(s, [job EXCEPT !.pc = pc])
    PROVE  MildJobs
<1>1. [job EXCEPT !.pc = pc].pc # "rotate"
  BY DEF Job
<1>2. QED
  BY <1>1, GoOnIsMild

LEMMA ThrowIsMild ==
    ASSUME SessionsTypeOK, NEW s \in Slots, Throw(s)
    PROVE  MildJobs /\ MildRows
<1>1. MildRows
  BY RowsStay DEF Throw, server
<1>2. CASE GoOn(s, Broken(jobs[s]))
  <2>1. Broken(jobs[s]).pc # "rotate"
    BY NotExchanging
  <2>2. QED
    BY <1>1, <1>2, <2>1, GoOnIsMild
<1>3. CASE jobs' = [x \in Slots |-> IF jobs[x].pc = "idle" THEN Free ELSE Broken(jobs[x])]
  <2>1. \A x \in Slots : jobs'[x].pc # "rotate"
    BY <1>3, NotExchanging
  <2>2. QED
    BY <1>1, <2>1 DEF MildJobs, Exchanging, AtStep
<1>4. QED
  BY <1>2, <1>3 DEF Throw

\* Ending all sessions, or dropping rows, uses no token.
LEMMA EndAllIsMild ==
    ASSUME SessionsTypeOK, NEW u, EndAll(u)
    PROVE  MildRows
  BY DEF SessionsTypeOK, EndAll, RevokedAll, MildRows, Row

LEMMA DroppedIsMild ==
    ASSUME SessionsTypeOK, NEW doomed, row' = Dropped(doomed)
    PROVE  MildRows
  BY DEF SessionsTypeOK, Dropped, MildRows, Row

\* The client's logout sends a request or gives one up.
LEMMA ClientLogoutIsMild ==
    ASSUME SessionsTypeOK, NEW t, NEW s \in Slots, NEW k, ClientLogout(t, s, k)
    PROVE  MildJobs
<1> DEFINE request == [Request("logout", t, auth[t].user) EXCEPT !.token = k]
<1>1. request.pc # "rotate"
  BY DEF Request, Free
<1>2. GoOn(s, request) \/ GoOn(s, Free)
  BY DEF ClientLogout
<1>3. QED
  BY <1>1, <1>2, NotExchanging, GoOnIsMild

-----------------------------------------------------------------------------
(* The handlers that are mild *)

LEMMA SignInIsMild ==
    ASSUME SessionsTypeOK, NEW s \in Slots,
           SignInRead(s) \/ SignInCreate(s) \/ SignInPassword(s)
    PROVE  MildJobs /\ MildRows
<1> DEFINE job == jobs[s]
           u == job.user
<1>1. job \in Job
  BY DEF SessionsTypeOK
<1>2. MildRows
  BY RowsStay, ThrowIsMild DEF SignInRead, SignInCreate, Rejected, SignInPassword, server
<1>3. \A pc \in {"issue", "password"} : [Origin(job, u) EXCEPT !.pc = pc].pc = pc
  BY <1>1 DEF Origin, Job
<1>4. CASE SignInRead(s)
  <2>1. \/ GoOn(s, [Origin(job, u) EXCEPT !.pc = "issue"])
        \/ GoOn(s, [job EXCEPT !.pc = "create"])
        \/ GoOn(s, Answer(job, FALSE, "keep"))
    BY <1>4 DEF SignInRead
  <2>2. QED
    BY <1>1, <1>2, <1>3, <2>1, GoOnIsMild, MovesOnIsMild, AnswerIsMild
<1>5. CASE SignInCreate(s)
  <2>1. \/ GoOn(s, [Origin(job, u) EXCEPT !.pc = "issue"])
        \/ GoOn(s, [Origin(job, u) EXCEPT !.pc = "password"])
        \/ GoOn(s, Answer(job, FALSE, "keep"))
        \/ Throw(s)
    BY <1>5 DEF SignInCreate, Rejected
  <2>2. QED
    BY <1>2, <1>3, <2>1, GoOnIsMild, AnswerIsMild, ThrowIsMild
<1>6. CASE SignInPassword(s)
  BY <1>1, <1>2, <1>6, MovesOnIsMild DEF SignInPassword
<1>7. QED
  BY <1>4, <1>5, <1>6

LEMMA RefusedOrKnownIsMild ==
    ASSUME SessionsTypeOK, NEW s \in Slots, RefreshRefused(s) \/ WhoAmI(s)
    PROVE  MildJobs /\ MildRows
<1>1. UNCHANGED row
  BY DEF RefreshRefused, WhoAmI, server
<1>2. PICK ok, set : GoOn(s, Answer(jobs[s], ok, set))
  BY DEF RefreshRefused, WhoAmI
<1>3. QED
  BY <1>1, <1>2, RowsStay, AnswerIsMild

LEMMA EndsAreMild ==
    ASSUME SessionsTypeOK, NEW s \in Slots, LogoutRead(s) \/ EndAllSessions(s)
    PROVE  MildJobs /\ MildRows
<1>1. jobs[s] \in Job
  BY DEF SessionsTypeOK
<1>2. CASE LogoutRead(s)
  <2>1. UNCHANGED row
    BY <1>2 DEF LogoutRead, server
  <2>2. PICK user : \/ GoOn(s, Answer(jobs[s], TRUE, "clear"))
                    \/ GoOn(s, [jobs[s] EXCEPT !.pc = "endAll", !.user = user])
    BY <1>2 DEF LogoutRead
  <2>3. [jobs[s] EXCEPT !.pc = "endAll", !.user = user].pc # "rotate"
    BY <1>1 DEF Job
  <2>4. QED
    BY <2>1, <2>2, <2>3, RowsStay, AnswerIsMild, GoOnIsMild
<1>3. CASE EndAllSessions(s)
  <2>1. PICK ok, set : GoOn(s, Answer(jobs[s], ok, set))
    BY <1>3 DEF EndAllSessions
  <2>2. EndAll(jobs[s].user)
    BY <1>3 DEF EndAllSessions
  <2>3. QED
    BY <2>1, <2>2, EndAllIsMild, AnswerIsMild
<1>4. QED
  BY <1>2, <1>3

LEMMA ResetIsMild ==
    ASSUME SessionsTypeOK, NEW s \in Slots, ResetRead(s) \/ ResetCommit(s)
    PROVE  MildJobs /\ MildRows
<1>1. jobs[s] \in Job
  BY DEF SessionsTypeOK
<1>2. CASE ResetRead(s)
  <2>1. UNCHANGED row
    BY <1>2 DEF ResetRead, server
  <2>2. GoOn(s, [jobs[s] EXCEPT !.pc = "commit"]) \/ GoOn(s, Answer(jobs[s], FALSE, "keep"))
    BY <1>2 DEF ResetRead
  <2>3. QED
    BY <1>1, <2>1, <2>2, RowsStay, MovesOnIsMild, AnswerIsMild
<1>3. CASE ResetCommit(s)
  <2>1. \/ EndAll(jobs[s].user) /\ GoOn(s, Answer(jobs[s], TRUE, "clear"))
        \/ Throw(s)
    BY <1>3 DEF ResetCommit
  <2>2. QED
    BY <2>1, EndAllIsMild, AnswerIsMild, ThrowIsMild
<1>4. QED
  BY <1>2, <1>3

LEMMA EndSessionIsMild ==
    ASSUME SessionsTypeOK, NEW s \in Slots, EndSession(s)
    PROVE  MildJobs /\ MildRows
<1> DEFINE k == jobs[s].token
<1>1. CASE Throw(s)
  BY <1>1, ThrowIsMild
<1>2. CASE row' = [row EXCEPT ![k].status = "revoked"] /\ GoOn(s, Answer(jobs[s], TRUE, "keep"))
  <2>1. MildRows
    BY <1>2 DEF SessionsTypeOK, MildRows, Row
  <2>2. QED
    BY <1>2, <2>1, AnswerIsMild
<1>3. CASE UNCHANGED server /\ GoOn(s, Answer(jobs[s], FALSE, "keep"))
  BY <1>3, RowsStay, AnswerIsMild DEF server
<1>4. QED
  BY <1>1, <1>2, <1>3 DEF EndSession

LEMMA DeleteIsMild ==
    ASSUME SessionsTypeOK, NEW s \in Slots, DeleteRead(s) \/ DeleteCommit(s)
    PROVE  MildJobs /\ MildRows
<1>1. jobs[s] \in Job
  BY DEF SessionsTypeOK
<1>2. CASE DeleteRead(s)
  <2>1. UNCHANGED row
    BY <1>2 DEF DeleteRead, server
  <2>2. GoOn(s, [jobs[s] EXCEPT !.pc = "commit"]) \/ GoOn(s, Answer(jobs[s], FALSE, "keep"))
    BY <1>2 DEF DeleteRead
  <2>3. QED
    BY <1>1, <2>1, <2>2, RowsStay, MovesOnIsMild, AnswerIsMild
<1>3. CASE DeleteCommit(s)
  <2>1. \/ /\ row' = Dropped({k \in TokenIds : row[k].user = jobs[s].user})
           /\ GoOn(s, [jobs[s] EXCEPT !.pc = "endAll"])
        \/ Throw(s)
    BY <1>3 DEF DeleteCommit
  <2>2. QED
    BY <1>1, <2>1, DroppedIsMild, MovesOnIsMild, ThrowIsMild
<1>4. QED
  BY <1>2, <1>3

-----------------------------------------------------------------------------
(* The client and the mishaps, all mild *)

LEMMA BackInTheBrowserIsMild ==
    ASSUME SessionsTypeOK, NEW s \in Slots, Heard(s) \/ Unheard(s) \/ Lost(s) \/ LoseAnswer(s)
    PROVE  MildJobs /\ MildRows
<1>1. UNCHANGED row
  BY DEF Heard, Unheard, Lost, LoseAnswer, server
<1>2. CASE Heard(s)
  <2>1. \/ GoOn(s, Free)
        \/ ClientLogout(jobs[s].tab, s, CookieAfter(jobs[s]))
        \/ GoOn(s, AfterFailure(jobs[s]))
    BY <1>2 DEF Heard
  <2>2. AfterFailure(jobs[s]).pc # "rotate"
    BY NotExchanging DEF AfterFailure
  <2>3. QED
    BY <1>1, <2>1, <2>2, NotExchanging, RowsStay, GoOnIsMild, ClientLogoutIsMild
<1>3. CASE Unheard(s)
  BY <1>1, <1>3, NotExchanging, RowsStay, GoOnIsMild DEF Unheard
<1>4. CASE Lost(s)
  <2>1. \/ ClientLogout(jobs[s].tab, s, cookie[BrowserOf[jobs[s].tab]])
        \/ GoOn(s, Free)
    BY <1>4 DEF Lost
  <2>2. QED
    BY <1>1, <2>1, NotExchanging, RowsStay, GoOnIsMild, ClientLogoutIsMild
<1>5. CASE LoseAnswer(s)
  <2>1. GoOn(s, Broken(jobs[s]))
    BY <1>5 DEF LoseAnswer
  <2>2. Broken(jobs[s]).pc # "rotate"
    BY NotExchanging
  <2>3. QED
    BY <1>1, <2>1, <2>2, RowsStay, GoOnIsMild
<1>6. QED
  BY <1>2, <1>3, <1>4, <1>5

LEMMA AskIsMild ==
    ASSUME SessionsTypeOK, NEW t \in Tabs, Ask(t)
    PROVE  MildJobs /\ MildRows
<1>1. ASSUME NEW op, NEW u, Click(op, t, u) PROVE MildJobs /\ MildRows
  <2>1. PICK s \in Slots : GoOn(s, Request(op, t, u))
    BY <1>1 DEF Click
  <2>2. Request(op, t, u).pc # "rotate"
    BY NotExchanging
  <2>3. QED
    BY <1>1, <2>1, <2>2, RowsStay, GoOnIsMild DEF Click, server
<1>2. CASE LogoutClick(t)
  BY <1>2, RowsStay, ClientLogoutIsMild DEF LogoutClick, server
<1>3. ASSUME NEW k \in TokenIds, EndSessionCall(t, k) PROVE MildJobs /\ MildRows
  <2> DEFINE request == [Request("endSession", t, auth[t].user) EXCEPT !.token = k]
  <2>1. PICK s \in Slots : GoOn(s, request)
    BY <1>3 DEF EndSessionCall
  <2>2. request.pc # "rotate"
    BY DEF Request, Free
  <2>3. QED
    BY <1>3, <2>1, <2>2, RowsStay, GoOnIsMild DEF EndSessionCall, server
<1>4. CASE Reload(t)
  <2>1. \A s \in Slots : \/ jobs'[s] = jobs[s]
                         \/ jobs'[s] = Free
                         \/ jobs'[s] = [jobs[s] EXCEPT !.heard = FALSE]
    BY <1>4 DEF Reload
  <2>2. \A s \in Slots : jobs[s] \in Job
    BY DEF SessionsTypeOK
  <2>3. ASSUME NEW s \in Slots, NEW k \in TokenIds, Exchanging(s, k)' PROVE Exchanging(s, k)
    <3>1. jobs'[s].op = "refresh" /\ jobs'[s].pc = "rotate" /\ jobs'[s].token = k
      BY <2>3 DEF Exchanging, AtStep
    <3>2. CASE jobs'[s] = jobs[s]
      BY <3>1, <3>2 DEF Exchanging, AtStep
    <3>3. CASE jobs'[s] = Free
      BY <3>1, <3>3, NotExchanging
    <3>4. CASE jobs'[s] = [jobs[s] EXCEPT !.heard = FALSE]
      <4>1. /\ jobs'[s].op = jobs[s].op /\ jobs'[s].pc = jobs[s].pc
            /\ jobs'[s].token = jobs[s].token
        BY <2>2, <3>4 DEF Job
      <4>2. QED
        BY <3>1, <4>1 DEF Exchanging, AtStep
    <3>5. QED
      BY <2>1, <3>2, <3>3, <3>4
  <2>4. QED
    BY <1>4, <2>3, RowsStay DEF Reload, server, MildJobs
<1>5. QED
  BY <1>1, <1>2, <1>3, <1>4 DEF Ask, SignInCall, ResetCall, RefreshCall, DeleteCall

LEMMA TheRestIsMild ==
    ASSUME SessionsTypeOK,
           \/ \E u \in Accounts : Forgot(u)
           \/ \E k \in TokenIds : TokenExpires(k)
           \/ \E b \in Browsers : CookieExpires(b)
           \/ Cleanup \/ AccessExpires \/ Crash
    PROVE  MildJobs /\ MildRows
<1>1. CASE \/ \E u \in Accounts : Forgot(u)
           \/ \E b \in Browsers : CookieExpires(b)
           \/ AccessExpires
  BY <1>1, RowsStay, JobsStay DEF Forgot, CookieExpires, AccessExpires, server
<1>2. ASSUME NEW k \in TokenIds, TokenExpires(k) PROVE MildJobs /\ MildRows
  <2>1. MildRows
    BY <1>2 DEF TokenExpires, SessionsTypeOK, MildRows, Row
  <2>2. QED
    BY <1>2, <2>1, JobsStay DEF TokenExpires
<1>3. CASE Cleanup
  BY <1>3, JobsStay, DroppedIsMild DEF Cleanup
<1>4. CASE Crash
  <2>1. \A x \in Slots : jobs'[x].pc # "rotate"
    BY <1>4, NotExchanging DEF Crash
  <2>2. QED
    BY <1>4, <2>1, RowsStay DEF Crash, server, MildJobs, Exchanging, AtStep
<1>5. QED
  BY <1>1, <1>2, <1>3, <1>4

-----------------------------------------------------------------------------
(* The three steps that are not *)

\* The new token has not been used, and nobody is exchanging an unused one.
LEMMA IssueKeepsUse ==
    ASSUME SessionsTypeOK, UseInv, NEW s \in Slots, Issue(s)
    PROVE  UseInv'
<1> DEFINE job == jobs[s]
           unused == {k \in TokenIds : row[k].status = "unused"}
           new == CHOOSE x \in unused : TRUE
<1>1. job \in Job
  BY DEF SessionsTypeOK
<1>2. CASE Throw(s) \/ (GoOn(s, Answer(job, FALSE, "keep")) /\ UNCHANGED server)
  BY <1>2, ThrowIsMild, AnswerIsMild, RowsStay, MildStep DEF server
<1>3. CASE /\ unused # {}
           /\ row' = [row EXCEPT ![new] = IssuedRow(job)]
           /\ GoOn(s, IF job.op = "refresh" THEN [job EXCEPT !.pc = "whoami", !.token = new]
                      ELSE Answer([job EXCEPT !.token = new], TRUE, "new"))
  <2>1. PICK n \in TokenIds : n = new /\ row[n].status = "unused"
    BY <1>3
  <2>2. MildJobs
    <3>1. [job EXCEPT !.pc = "whoami", !.token = n].pc # "rotate"
      BY <1>1 DEF Job
    <3>2. QED
      BY <1>3, <2>1, <3>1, GoOnIsMild, AnswerIsMild
  <2>3. IssuedRow(job).uses = 0 /\ IssuedRow(job).status = "live"
    BY DEF IssuedRow, Unused
  <2>4. \A x \in Slots : ~Exchanging(x, n)'
    BY <2>1, <2>2 DEF UseInv, UnusedIsFree, MildJobs
  <2>5. \A k \in TokenIds : row'[k] = IF k = n THEN IssuedRow(job) ELSE row[k]
    BY <1>3, <2>1 DEF SessionsTypeOK
  <2>6. ASSUME NEW k \in TokenIds PROVE UseSound(k)' /\ UnusedIsFree(k)'
    <3>1. CASE k = n
      <4>1. row'[k].uses = 0 /\ row'[k].status = "live"
        BY <2>3, <2>5, <3>1
      <4>2. \A x \in Slots : ~Exchanging(x, k)'
        BY <2>4, <3>1
      <4>3. QED
        BY <4>1, <4>2 DEF UseSound, UnusedIsFree
    <3>2. CASE k # n
      <4>1. row'[k] = row[k]
        BY <2>5, <3>2
      <4>2. \A x \in Slots : Exchanging(x, k)' => Exchanging(x, k)
        BY <2>2 DEF MildJobs
      <4>3. QED
        BY <4>1, <4>2 DEF UseInv, UseSound, UnusedIsFree
    <3>3. QED
      BY <3>1, <3>2
  <2>7. QED
    BY <2>6 DEF UseInv
<1>4. QED
  BY <1>2, <1>3 DEF Issue, Rejected

\* Whoever finds a token live that another request is exchanging contests it;
\* whoever finds it live alone will be the one to exchange it.
LEMMA RefreshReadKeepsUse ==
    ASSUME SessionsTypeOK, UseInv, NEW s \in Slots, RefreshRead(s)
    PROVE  UseInv'
<1> DEFINE job == jobs[s]
           k == job.token
           contested == k # NoToken /\ Contesting(s, k)
<1>1. job \in Job /\ k \in TokenIds \union {NoToken}
  BY DEF SessionsTypeOK, Job
<1>2. row' = IF contested THEN [row EXCEPT ![k].contested = TRUE] ELSE row
  BY DEF RefreshRead
<1>3. MildRows
  BY <1>2 DEF MildRows, SessionsTypeOK, Row
<1>4. CASE \E ok, set : GoOn(s, Answer(job, ok, set))
  BY <1>3, <1>4, AnswerIsMild, MildStep
<1>5. CASE \E u : GoOn(s, [job EXCEPT !.pc = "endAll", !.user = u])
  <2>1. PICK u : GoOn(s, [job EXCEPT !.pc = "endAll", !.user = u])
    BY <1>5
  <2>2. [job EXCEPT !.pc = "endAll", !.user = u].pc # "rotate"
    BY <1>1 DEF Job
  <2>3. QED
    BY <1>3, <2>1, <2>2, GoOnIsMild, MildStep
<1> DEFINE chosen == [job EXCEPT !.pc = "rotate", !.user = row[k].user, !.login = row[k].login,
                                 !.raced = row[k].raced, !.seen = ends[row[k].user]]
<1>6. CASE k # NoToken /\ row[k].status = "live" /\ GoOn(s, chosen)
  <2>1. k \in TokenIds
    BY <1>1, <1>6
  <2>2. chosen.token = k
    BY <1>1 DEF Job
  <2>3. \A x \in Slots : jobs'[x] = IF x = s THEN chosen ELSE jobs[x]
    BY <1>6 DEF SessionsTypeOK, GoOn
  <2> HIDE DEF chosen
  <2>4. \A x \in Slots, l \in TokenIds :
           Exchanging(x, l)' => Exchanging(x, l) \/ (x = s /\ l = k)
    BY <2>2, <2>3 DEF Exchanging, AtStep
  <2>5. ASSUME NEW l \in TokenIds PROVE UseSound(l)' /\ UnusedIsFree(l)'
    <3>1. UseSound(l) /\ UnusedIsFree(l)
      BY DEF UseInv
    <3>2. /\ row'[l].uses = row[l].uses
          /\ row[l].contested => row'[l].contested
          /\ row'[l].status \in {"unused", "live"} => row'[l].status = row[l].status
      BY <1>3 DEF MildRows
    <3>3. CASE l # k
      <4>1. \A x \in Slots : Exchanging(x, l)' => Exchanging(x, l)
        BY <2>4, <3>3
      <4>2. QED
        BY <3>1, <3>2, <4>1 DEF UseSound, UnusedIsFree
    <3>4. CASE l = k
      <4>1. row'[k].status = "live"
        BY <1>2, <1>6, <2>1 DEF SessionsTypeOK, Row
      <4>2. UnusedIsFree(l)'
        BY <3>4, <4>1 DEF UnusedIsFree
      <4>3. CASE contested
        <5>1. row'[k].contested
          BY <1>2, <2>1, <4>3 DEF SessionsTypeOK, Row
        <5>2. QED
          BY <3>4, <4>2, <5>1 DEF UseSound
      <4>4. CASE ~contested
        <5>1. \A x \in Slots : Exchanging(x, l)' => x = s
          BY <1>6, <2>4, <3>4, <4>4 DEF Contesting, Exchanging
        <5>2. row' = row
          BY <1>2, <4>4
        <5>3. ~row[l].contested => row[l].uses = 0
          BY <1>6, <3>1, <3>4 DEF UseSound
        <5>4. UseSound(l)'
          BY <5>1, <5>2, <5>3 DEF UseSound
        <5>5. QED
          BY <4>2, <5>4
      <4>5. QED
        BY <4>3, <4>4
    <3>5. QED
      BY <3>3, <3>4
  <2>6. QED
    BY <2>5 DEF UseInv
<1>7. QED
  BY <1>4, <1>5, <1>6 DEF RefreshRead, Unrevoked

\* Unless it is contested, a token that is exchanged was not exchanged before,
\* and nobody else is exchanging it.
LEMMA RotateKeepsUse ==
    ASSUME SessionsTypeOK, UseInv, NEW s \in Slots, Rotate(s)
    PROVE  UseInv'
<1> DEFINE k == jobs[s].token
<1>1. jobs[s] \in Job /\ AtStep(s, "refresh", "rotate")
  BY DEF SessionsTypeOK, Rotate
<1>2. CASE Throw(s)
  BY <1>2, ThrowIsMild, MildStep
<1>3. CASE row' = [row EXCEPT ![k] = Exchanged(row[k])] /\ GoOn(s, [jobs[s] EXCEPT !.pc = "issue"])
  <2>1. MildJobs
    BY <1>1, <1>3, MovesOnIsMild
  <2>2. \A l \in TokenIds : ~Exchanging(s, l)'
    BY <1>1, <1>3 DEF SessionsTypeOK, GoOn, Job, Exchanging, AtStep
  <2>3. ASSUME NEW l \in TokenIds PROVE UseSound(l)' /\ UnusedIsFree(l)'
    <3>1. UseSound(l) /\ UnusedIsFree(l)
      BY DEF UseInv
    <3>2. \A x \in Slots : Exchanging(x, l)' => Exchanging(x, l) /\ x # s
      BY <2>1, <2>2 DEF MildJobs
    <3>3. CASE l # k
      <4>1. row'[l] = row[l]
        BY <1>3, <3>3 DEF SessionsTypeOK
      <4>2. QED
        BY <3>1, <3>2, <4>1 DEF UseSound, UnusedIsFree
    <3>4. CASE l = k
      <4>1. /\ row'[l].uses = row[l].uses + 1 /\ row'[l].status = "revoked"
            /\ row'[l].contested = row[l].contested
        BY <1>3, <3>4 DEF SessionsTypeOK, Row, Exchanged
      <4>2. Exchanging(s, l)
        BY <1>1, <3>4 DEF Exchanging
      <4>3. ~row[l].contested => row[l].uses = 0 /\ \A x \in Slots : ~Exchanging(x, l)'
        BY <3>1, <3>2, <4>2 DEF UseSound
      <4>4. QED
        BY <4>1, <4>3 DEF UseSound, UnusedIsFree
    <3>5. QED
      BY <3>3, <3>4
  <2>4. QED
    BY <2>3 DEF UseInv
<1>4. QED
  BY <1>2, <1>3 DEF Rotate

-----------------------------------------------------------------------------
LEMMA InitUse == SessionsInit => UseInv
<1> SUFFICES ASSUME SessionsInit PROVE UseInv
  OBVIOUS
<1>1. \A s \in Slots, k \in TokenIds : ~Exchanging(s, k)
  BY DEF SessionsInit, Exchanging, AtStep, Free
<1>2. \A k \in TokenIds : row[k].uses = 0
  <2>1. CASE NewAccount
    BY <2>1 DEF NewAccount, Unused
  <2>2. ASSUME NEW u, NEW b, NEW x, SignedIn(u, b, x) PROVE \A k \in TokenIds : row[k].uses = 0
    BY <2>2 DEF SignedIn, Unused
  <2>3. QED
    BY <2>1, <2>2 DEF SessionsInit
<1>3. QED
  BY <1>1, <1>2 DEF UseInv, UseSound, UnusedIsFree

LEMMA NextUse == SessionsTypeOK /\ UseInv /\ [SessionsNext]_sessionsVars => UseInv'
<1> SUFFICES ASSUME SessionsTypeOK, UseInv, [SessionsNext]_sessionsVars PROVE UseInv'
  OBVIOUS
<1>1. ASSUME NEW s \in Slots, Serve(s) PROVE UseInv'
  BY <1>1, MildStep, SignInIsMild, IssueKeepsUse, RefreshReadKeepsUse, RotateKeepsUse,
     RefusedOrKnownIsMild, EndsAreMild, ResetIsMild, EndSessionIsMild, DeleteIsMild,
     BackInTheBrowserIsMild DEF Serve
<1>2. ASSUME NEW s \in Slots, RefreshRefused(s) \/ LoseAnswer(s) PROVE UseInv'
  BY <1>2, MildStep, RefusedOrKnownIsMild, BackInTheBrowserIsMild
<1>3. ASSUME NEW t \in Tabs, Ask(t) PROVE UseInv'
  BY <1>3, MildStep, AskIsMild
<1>4. CASE \/ \E u \in Accounts : Forgot(u)
           \/ \E k \in TokenIds : TokenExpires(k)
           \/ \E b \in Browsers : CookieExpires(b)
           \/ Cleanup \/ AccessExpires \/ Crash
  BY <1>4, MildStep, TheRestIsMild
<1>5. CASE UNCHANGED sessionsVars
  BY <1>5, MildStep, RowsStay, JobsStay DEF sessionsVars, server
<1>6. QED
  BY <1>1, <1>2, <1>3, <1>4, <1>5 DEF SessionsNext

\* However refreshes, logouts, crashes and clean-ups interleave, a refresh token
\* is exchanged at most once unless two requests found it live before either had
\* exchanged it.
THEOREM ExchangedOnce == SessionsSpec => []SingleUse
<1>1. SessionsTypeOK /\ UseInv => SingleUse
  BY DEF UseInv, UseSound, SingleUse, SessionsTypeOK, Row
<1>2. QED
  BY <1>1, InitUse, NextUse, SessionsTypeCorrect, PTL DEF SessionsSpec

-----------------------------------------------------------------------------
(***************************************************************************)
(* A cookie is current (CookieIsCurrent), for any number of accounts,      *)
(* tabs, browsers, requests and tokens: unless an exchange of one of its   *)
(* browser's tokens raced or was cut short, the cookie a browser holds is  *)
(* not one that has been exchanged already. No browser shares a token with *)
(* another, and each answer still on its way brings what replaces the      *)
(* cookie it was sent with.                                                *)
(***************************************************************************)

-----------------------------------------------------------------------------
(* What the cookie of a browser may be                                     *)

\* A token that a browser has: its cookie, or in a request of one of its tabs.
Carrying(job, b, k) ==
    job.op # "endSession" /\ job.token = k /\ job.tab \in Tabs /\ BrowserOf[job.tab] = b

Holds(b, k) == cookie[b] = k \/ \E s \in Slots : Carrying(jobs[s], b, k)

\* A token just issued, which the browser has yet to hear of.
IsNew(job) == job.pc = "whoami" \/ (job.pc = "answer" /\ job.set = "new")

\* A request that has exchanged its browser's token, or has failed to.
Exchanges(job, b) ==
    /\ job.op = "refresh" /\ job.heard /\ job.tab \in Tabs /\ BrowserOf[job.tab] = b
    /\ \/ job.pc \in {"issue", "whoami", "lost"}
       \/ job.pc = "answer" /\ job.set \in {"new", "clear"}

HeldAreIssued ==
    /\ \A b \in Browsers : cookie[b] \in TokenIds => row[cookie[b]].status # "unused"
    /\ \A s \in Slots : jobs[s].op # "endSession" /\ jobs[s].token \in TokenIds =>
          row[jobs[s].token].status # "unused"

OneStepEnds == \A s \in Slots : jobs[s].op = "endSession" => jobs[s].pc \in {"sent", "answer", "lost"}

UnusedAreUnused == \A k \in TokenIds : row[k].status = "unused" => row[k].uses = 0

HeldByOne ==
    \A b, c \in Browsers, k \in TokenIds : Holds(b, k) /\ Holds(c, k) => b = c

NewToken(s) ==
    /\ jobs[s].op # "endSession" /\ jobs[s].token \in TokenIds
    /\ row[jobs[s].token].uses = 0
    /\ \A b \in Browsers : cookie[b] # jobs[s].token
    /\ \A x \in Slots \ {s} : jobs[x].op # "endSession" => jobs[x].token # jobs[s].token

NewTokens == \A s \in Slots : IsNew(jobs[s]) => NewToken(s)

AbortedUpset ==
    \A s \in Slots : jobs[s].pc # "idle" /\ ~jobs[s].heard => BrowserOf[jobs[s].tab] \in upset

OnTheWay ==
    \A b \in Browsers \ upset :
        cookie[b] # NoToken /\ row[cookie[b]].uses > 0 => \E s \in Slots : Exchanges(jobs[s], b)

CookieInv ==
    /\ HeldAreIssued /\ UnusedAreUnused /\ HeldByOne /\ NewTokens /\ AbortedUpset
    /\ OnTheWay /\ OneStepEnds

-----------------------------------------------------------------------------
(* Tame steps: they give out no token and exchange none                    *)

\* A request whose end its browser need not wait for.
Over(old) ==
    \A b \in Browsers : Exchanges(old, b) => b \in upset' \/ cookie'[b] = NoToken

\* A request in the place of another: with a token its browser had, and an
\* exchange goes on.
TokenFollows(old, new) ==
    \/ new.op = "endSession" \/ new.token = NoToken
    \/ new.tab \in Tabs /\ new.token = cookie[BrowserOf[new.tab]]
    \/ old.op # "endSession" /\ new.token = old.token /\ new.tab = old.tab

NewFollows(old, new) ==
    IsNew(new) => IsNew(old) /\ new.op # "endSession" /\ new.token = old.token /\ new.tab = old.tab

HeardFollows(new) == new.pc # "idle" /\ ~new.heard => BrowserOf[new.tab] \in upset'

ExchangeFollows(old, new) ==
    \A b \in Browsers : Exchanges(old, b) =>
        Exchanges(new, b) \/ b \in upset' \/ cookie'[b] = NoToken

OpFollows(new) == new.op = "endSession" => new.pc \in {"sent", "answer", "lost"}

Follows(old, new) ==
    /\ TokenFollows(old, new) /\ NewFollows(old, new) /\ HeardFollows(new)
    /\ ExchangeFollows(old, new) /\ OpFollows(new)

TameJobs == \A s \in Slots : jobs'[s] = jobs[s] \/ Follows(jobs[s], jobs'[s])

TameCookies == \A b \in Browsers : cookie'[b] \in {cookie[b], NoToken}

\* In a tame step browsers get no token they did not hold.
LEMMA TameHolds ==
    ASSUME SessionsTypeOK, TameJobs, TameCookies, NEW b \in Browsers, NEW k \in TokenIds, Holds(b, k)'
    PROVE  Holds(b, k)
<1>1. k # NoToken
  BY SessionsAssumption
<1>2. CASE cookie'[b] = k
  BY <1>1, <1>2 DEF TameCookies, Holds
<1>3. ASSUME NEW s \in Slots, Carrying(jobs'[s], b, k) PROVE Holds(b, k)
  BY <1>1, <1>3 DEF TameJobs, Follows, TokenFollows, Carrying, Holds
<1>4. QED
  BY <1>2, <1>3 DEF Holds

LEMMA TameStep ==
    ASSUME SessionsTypeOK, CookieInv, MildRows, TameJobs, TameCookies, upset \subseteq upset'
    PROVE  CookieInv'
<1>1. \A k \in TokenIds : /\ row'[k].uses = row[k].uses
                          /\ row'[k].status = "unused" => row[k].status = "unused"
  BY DEF MildRows
<1>2. \A b \in Browsers, k \in TokenIds : Holds(b, k)' => Holds(b, k)
  BY TameHolds
<1>3. NoToken \notin TokenIds
  BY SessionsAssumption
<1>4. HeldAreIssued'
  <2>1. ASSUME NEW b \in Browsers, cookie'[b] \in TokenIds PROVE row'[cookie'[b]].status # "unused"
    BY <1>1, <1>3, <2>1 DEF TameCookies, CookieInv, HeldAreIssued
  <2>2. ASSUME NEW s \in Slots, jobs'[s].op # "endSession", jobs'[s].token \in TokenIds
        PROVE  row'[jobs'[s].token].status # "unused"
    <3>1. CASE jobs'[s] = jobs[s]
      BY <1>1, <2>2, <3>1 DEF CookieInv, HeldAreIssued
    <3>2. CASE Follows(jobs[s], jobs'[s])
      <4>1. jobs'[s].tab \in Tabs => BrowserOf[jobs'[s].tab] \in Browsers
        BY SessionsAssumption
      <4>2. QED
        BY <1>1, <1>3, <2>2, <3>2, <4>1 DEF Follows, TokenFollows, CookieInv, HeldAreIssued
    <3>3. QED
      BY <3>1, <3>2 DEF TameJobs
  <2>3. QED
    BY <2>1, <2>2 DEF HeldAreIssued
<1>5. UnusedAreUnused'
  BY <1>1 DEF CookieInv, UnusedAreUnused
<1>6. HeldByOne'
  BY <1>2 DEF CookieInv, HeldByOne
<1>7. NewTokens'
  <2>1. ASSUME NEW s \in Slots, IsNew(jobs'[s]) PROVE NewToken(s)'
    <3> DEFINE k == jobs[s].token
    <3>1. IsNew(jobs[s]) /\ jobs'[s].op # "endSession" /\ jobs'[s].token = k
      <4>1. NewToken(s) \/ ~IsNew(jobs[s])
        BY DEF CookieInv, NewTokens
      <4>2. CASE jobs'[s] = jobs[s]
        BY <2>1, <4>1, <4>2 DEF NewToken
      <4>3. CASE Follows(jobs[s], jobs'[s])
        BY <2>1, <4>3 DEF Follows, NewFollows
      <4>4. QED
        BY <4>2, <4>3 DEF TameJobs
    <3>2. NewToken(s)
      BY <3>1 DEF CookieInv, NewTokens
    <3>3. k \in TokenIds /\ row'[k].uses = 0
      BY <1>1, <3>2 DEF NewToken
    <3>4. \A b \in Browsers : cookie'[b] # k
      BY <1>3, <3>2, <3>3 DEF NewToken, TameCookies
    <3>5. ASSUME NEW x \in Slots \ {s}, jobs'[x].op # "endSession" PROVE jobs'[x].token # k
      <4>1. jobs[x].op # "endSession" => jobs[x].token # k
        BY <3>2 DEF NewToken
      <4>2. CASE jobs'[x] = jobs[x]
        BY <3>5, <4>1, <4>2
      <4>3. CASE Follows(jobs[x], jobs'[x])
        <5>1. jobs'[x].tab \in Tabs => cookie[BrowserOf[jobs'[x].tab]] # k
          BY <3>2, SessionsAssumption DEF NewToken
        <5>2. QED
          BY <1>3, <3>3, <3>5, <4>1, <4>3, <5>1 DEF Follows, TokenFollows
      <4>4. QED
        BY <4>2, <4>3 DEF TameJobs
    <3>6. QED
      BY <3>1, <3>3, <3>4, <3>5 DEF NewToken
  <2>2. QED
    BY <2>1 DEF NewTokens
<1>8. AbortedUpset'
  BY DEF CookieInv, AbortedUpset, TameJobs, Follows, HeardFollows
<1>9. OnTheWay'
  <2>1. ASSUME NEW b \in Browsers \ upset', cookie'[b] # NoToken, row'[cookie'[b]].uses > 0
        PROVE  \E s \in Slots : Exchanges(jobs'[s], b)
    <3>1. cookie'[b] = cookie[b] /\ cookie[b] \in TokenIds
      BY <2>1 DEF TameCookies, SessionsTypeOK
    <3>2. PICK s \in Slots : Exchanges(jobs[s], b)
      BY <1>1, <2>1, <3>1 DEF CookieInv, OnTheWay
    <3>3. Exchanges(jobs'[s], b)
      BY <2>1, <3>2 DEF TameJobs, Follows, ExchangeFollows
    <3>4. QED
      BY <3>3
  <2>2. QED
    BY <2>1 DEF OnTheWay
<1>10. OneStepEnds'
  BY DEF CookieInv, OneStepEnds, TameJobs, Follows, OpFollows
<1>11. QED
  BY <1>4, <1>5, <1>6, <1>7, <1>8, <1>9, <1>10 DEF CookieInv

-----------------------------------------------------------------------------
(* The requests that follow *)

\* A place gets a request that follows the one in it.
LEMMA FollowsIsTame ==
    ASSUME SessionsTypeOK, NEW s \in Slots, NEW job, GoOn(s, job), Follows(jobs[s], job)
    PROVE  TameJobs
<1>1. \A x \in Slots : jobs'[x] = IF x = s THEN job ELSE jobs[x]
  BY DEF SessionsTypeOK, GoOn
<1>2. QED
  BY <1>1 DEF TameJobs

LEMMA CookiesStay == UNCHANGED cookie => TameCookies
  BY DEF TameCookies

\* These requests have exchanged nothing.
LEMMA NothingYet ==
    ASSUME NEW job, job.pc \in {"idle", "sent", "create", "password", "rotate", "endAll", "commit"}
    PROVE  Over(job)
  BY DEF Over, Exchanges

LEMMA NoRefresh == ASSUME NEW job, job.op # "refresh" \/ ~job.heard PROVE Over(job)
  BY DEF Over, Exchanges

LEMMA FreeFollows == ASSUME NEW job, Over(job) PROVE Follows(job, Free)
  BY DEF Follows, TokenFollows, NewFollows, HeardFollows, ExchangeFollows, OpFollows, Over, Free, IsNew

LEMMA RequestFollows ==
    ASSUME NEW job, Over(job), NEW op, NEW t \in Tabs, NEW u
    PROVE  Follows(job, Request(op, t, u))
<1> DEFINE new == Request(op, t, u)
<1>1. /\ new.pc = "sent" /\ new.heard /\ new.tab = t /\ new.token = cookie[BrowserOf[t]]
  BY DEF Request, Free
<1> HIDE DEF new
<1>2. TokenFollows(job, new) /\ NewFollows(job, new) /\ HeardFollows(new) /\ OpFollows(new)
  BY <1>1 DEF TokenFollows, NewFollows, HeardFollows, OpFollows, IsNew
<1>3. ExchangeFollows(job, new)
  BY DEF ExchangeFollows, Over
<1>4. QED
  BY <1>2, <1>3 DEF Follows, new

\* What is known of a request under way.
UnderWay(job) ==
    /\ job \in Job /\ job.pc # "idle" /\ job.tab \in Tabs
    /\ ~job.heard => BrowserOf[job.tab] \in upset

LEMMA JobUnderWay ==
    ASSUME SessionsInv, CookieInv, NEW s \in Slots, jobs[s].pc # "idle"
    PROVE  UnderWay(jobs[s])
  BY JobFacts DEF UnderWay, CookieInv, AbortedUpset

LEMMA AnswerParts ==
    ASSUME NEW job, NEW ok, NEW set
    PROVE  LET a == Answer(job, ok, set)
           IN  /\ a.op = job.op /\ a.pc = "answer" /\ a.tab = job.tab /\ a.heard = job.heard
               /\ a.set = set /\ a.token = IF set = "new" THEN job.token ELSE NoToken
  BY DEF Answer, Free

\* An answer that changes nothing, to a request that has exchanged nothing.
LEMMA KeepFollows ==
    ASSUME NEW job, UnderWay(job), Over(job), upset \subseteq upset', NEW ok, NEW set \in {"keep", "clear"}
    PROVE  Follows(job, Answer(job, ok, set))
<1> DEFINE a == Answer(job, ok, set)
<1>1. /\ a.op = job.op /\ a.pc = "answer" /\ a.tab = job.tab /\ a.heard = job.heard
      /\ a.set = set /\ a.token = NoToken
  BY AnswerParts
<1> HIDE DEF a
<1>2. TokenFollows(job, a) /\ NewFollows(job, a)
  BY <1>1 DEF TokenFollows, NewFollows, IsNew
<1>3. HeardFollows(a) /\ OpFollows(a)
  BY <1>1 DEF HeardFollows, UnderWay, OpFollows
<1>4. ExchangeFollows(job, a)
  BY DEF ExchangeFollows, Over
<1>5. QED
  BY <1>2, <1>3, <1>4 DEF Follows, a

\* The answer to a refresh that knows who asks.
LEMMA KnownFollows ==
    ASSUME NEW job, UnderWay(job), job.pc = "whoami", job.op # "endSession", upset \subseteq upset',
           NEW ok, NEW set \in {"new", "clear"}
    PROVE  Follows(job, Answer(job, ok, set))
<1> DEFINE a == Answer(job, ok, set)
<1>1. /\ a.op = job.op /\ a.pc = "answer" /\ a.tab = job.tab /\ a.heard = job.heard
      /\ a.set = set /\ a.token = IF set = "new" THEN job.token ELSE NoToken
  BY AnswerParts
<1> HIDE DEF a
<1>2. TokenFollows(job, a) /\ NewFollows(job, a)
  BY <1>1 DEF TokenFollows, NewFollows, IsNew
<1>3. HeardFollows(a) /\ OpFollows(a)
  BY <1>1 DEF HeardFollows, UnderWay, OpFollows
<1>4. ExchangeFollows(job, a)
  BY <1>1 DEF ExchangeFollows, Exchanges
<1>5. QED
  BY <1>2, <1>3, <1>4 DEF Follows, a

\* A request goes on with the token it has.
LEMMA MovesOnFollows ==
    ASSUME NEW job, UnderWay(job), Over(job), upset \subseteq upset',
           NEW new, new.op = job.op, new.op # "endSession", new.token = job.token, new.tab = job.tab, new.heard = job.heard,
           new.pc \notin {"whoami", "answer"}
    PROVE  Follows(job, new)
<1>1. TokenFollows(job, new) /\ NewFollows(job, new)
  BY DEF TokenFollows, NewFollows, IsNew
<1>2. HeardFollows(new) /\ OpFollows(new)
  BY DEF HeardFollows, UnderWay, OpFollows
<1>3. ExchangeFollows(job, new)
  BY DEF ExchangeFollows, Over
<1>4. QED
  BY <1>1, <1>2, <1>3 DEF Follows

LEMMA BrokenFollows ==
    ASSUME NEW job, UnderWay(job)
    PROVE  Follows(job, Broken(job))
<1>1. CASE job.heard
  <2> DEFINE new == Broken(job)
  <2>1. /\ new.op = job.op /\ new.pc = "lost" /\ new.tab = job.tab /\ new.heard
        /\ new.token = NoToken
    BY <1>1 DEF Broken, Free
  <2> HIDE DEF new
  <2>2. TokenFollows(job, new) /\ NewFollows(job, new) /\ HeardFollows(new) /\ OpFollows(new)
    BY <2>1 DEF TokenFollows, NewFollows, HeardFollows, OpFollows, IsNew
  <2>3. ExchangeFollows(job, new)
    BY <2>1 DEF ExchangeFollows, Exchanges
  <2>4. QED
    BY <2>2, <2>3 DEF Follows, new
<1>2. CASE ~job.heard
  BY <1>2, NoRefresh, FreeFollows DEF Broken
<1>3. QED
  BY <1>1, <1>2

\* Every request is given up, at once.
LEMMA CrashIsTame ==
    ASSUME SessionsInv, CookieInv,
           jobs' = [x \in Slots |-> IF jobs[x].pc = "idle" THEN Free ELSE Broken(jobs[x])]
    PROVE  TameJobs
<1>1. ASSUME NEW x \in Slots PROVE Follows(jobs[x], jobs'[x])
  <2>1. CASE jobs[x].pc = "idle"
    BY <2>1, NothingYet, FreeFollows
  <2>2. CASE jobs[x].pc # "idle"
    BY <2>2, JobUnderWay, BrokenFollows
  <2>3. QED
    BY <2>1, <2>2
<1>2. QED
  BY <1>1 DEF TameJobs

LEMMA ThrowIsTame ==
    ASSUME SessionsInv, CookieInv, NEW s \in Slots, jobs[s].pc # "idle", Throw(s)
    PROVE  TameJobs
<1>1. CASE GoOn(s, Broken(jobs[s]))
  BY <1>1, JobUnderWay, BrokenFollows, FollowsIsTame DEF SessionsInv
<1>2. QED
  BY <1>1, CrashIsTame DEF Throw

\* The client's logout, with the cookie it still has.
LEMMA ClientLogoutFollows ==
    ASSUME NEW job, Over(job), NEW t \in Tabs, NEW s, NEW k, k \in {cookie[BrowserOf[t]], NoToken},
           ClientLogout(t, s, k)
    PROVE  \E new : GoOn(s, new) /\ Follows(job, new)
<1> DEFINE request == [Request("logout", t, auth[t].user) EXCEPT !.token = k]
<1>1. /\ request.pc = "sent" /\ request.heard /\ request.tab = t /\ request.token = k
  BY DEF Request, Free
<1> HIDE DEF request
<1>2. Follows(job, request)
  <2>1. TokenFollows(job, request) /\ NewFollows(job, request) /\ HeardFollows(request)
        /\ OpFollows(request)
    BY <1>1 DEF TokenFollows, NewFollows, HeardFollows, OpFollows, IsNew
  <2>2. ExchangeFollows(job, request)
    BY DEF ExchangeFollows, Over
  <2>3. QED
    BY <2>1, <2>2 DEF Follows
<1>3. GoOn(s, request) \/ GoOn(s, Free)
  BY DEF ClientLogout, request
<1>4. QED
  BY <1>2, <1>3, FreeFollows

-----------------------------------------------------------------------------
(* The handlers that are tame *)

LEMMA ClientStays == UNCHANGED client => TameCookies /\ upset \subseteq upset' /\ UNCHANGED cookie
  BY CookiesStay DEF client

\* A place gets an answer that is no new token, or the request goes on.
LEMMA AnswerIsTame ==
    ASSUME SessionsInv, CookieInv, NEW s \in Slots, jobs[s].pc # "idle", Over(jobs[s]),
           upset \subseteq upset', NEW ok, NEW set \in {"keep", "clear"},
           GoOn(s, Answer(jobs[s], ok, set))
    PROVE  TameJobs
  BY JobUnderWay, KeepFollows, FollowsIsTame DEF SessionsInv

LEMMA MovesOnIsTame ==
    ASSUME SessionsInv, CookieInv, NEW s \in Slots, jobs[s].pc # "idle", Over(jobs[s]), jobs[s].op # "endSession",
          
           upset \subseteq upset',
           NEW job, job.op = jobs[s].op, job.token = jobs[s].token, job.tab = jobs[s].tab,
           job.heard = jobs[s].heard, job.pc \notin {"whoami", "answer"}, GoOn(s, job)
    PROVE  TameJobs
<1>1. UnderWay(jobs[s])
  BY JobUnderWay
<1>2. Follows(jobs[s], job)
  BY <1>1, MovesOnFollows
<1>3. QED
  BY <1>2, FollowsIsTame DEF SessionsInv

\* What remains of a request whose user and step change.
LEMMA JobGoesOn ==
    ASSUME NEW job \in Job, NEW u, NEW pc
    PROVE  /\ LET new == [job EXCEPT !.pc = pc, !.user = u]
              IN  /\ new.op = job.op /\ new.token = job.token /\ new.tab = job.tab
                  /\ new.heard = job.heard /\ new.pc = pc
           /\ LET new == [job EXCEPT !.pc = pc]
              IN  /\ new.op = job.op /\ new.token = job.token /\ new.tab = job.tab
                  /\ new.heard = job.heard /\ new.pc = pc
           /\ LET new == [Origin(job, u) EXCEPT !.pc = pc]
              IN  /\ new.op = job.op /\ new.token = job.token /\ new.tab = job.tab
                  /\ new.heard = job.heard /\ new.pc = pc
  BY DEF Job, Origin

LEMMA NamedIsTame ==
    ASSUME SessionsInv, CookieInv, NEW s \in Slots, jobs[s].pc # "idle", Over(jobs[s]), jobs[s].op # "endSession",
          
           upset \subseteq upset', NEW u, NEW pc \in {"endAll"},
           GoOn(s, [jobs[s] EXCEPT !.pc = pc, !.user = u])
    PROVE  TameJobs
<1> DEFINE new == [jobs[s] EXCEPT !.pc = pc, !.user = u]
<1>1. /\ new.op = jobs[s].op /\ new.token = jobs[s].token /\ new.tab = jobs[s].tab
      /\ new.heard = jobs[s].heard /\ new.pc = pc
  BY JobFacts, JobGoesOn
<1>2. GoOn(s, new)
  OBVIOUS
<1> HIDE DEF new
<1>3. QED
  BY <1>1, <1>2, MovesOnIsTame

LEMMA StepIsTame ==
    ASSUME SessionsInv, CookieInv, NEW s \in Slots, jobs[s].pc # "idle", Over(jobs[s]), jobs[s].op # "endSession",
          
           upset \subseteq upset', NEW pc \in {"create", "issue", "commit", "endAll"},
           GoOn(s, [jobs[s] EXCEPT !.pc = pc])
    PROVE  TameJobs
<1> DEFINE new == [jobs[s] EXCEPT !.pc = pc]
<1>1. /\ new.op = jobs[s].op /\ new.token = jobs[s].token /\ new.tab = jobs[s].tab
      /\ new.heard = jobs[s].heard /\ new.pc = pc
  BY JobFacts, JobGoesOn
<1>2. GoOn(s, new)
  OBVIOUS
<1> HIDE DEF new
<1>3. QED
  BY <1>1, <1>2, MovesOnIsTame

LEMMA OriginIsTame ==
    ASSUME SessionsInv, CookieInv, NEW s \in Slots, jobs[s].pc # "idle", Over(jobs[s]), jobs[s].op # "endSession",
          
           upset \subseteq upset', NEW u, NEW pc \in {"issue", "password"},
           GoOn(s, [Origin(jobs[s], u) EXCEPT !.pc = pc])
    PROVE  TameJobs
<1> DEFINE new == [Origin(jobs[s], u) EXCEPT !.pc = pc]
<1>1. /\ new.op = jobs[s].op /\ new.token = jobs[s].token /\ new.tab = jobs[s].tab
      /\ new.heard = jobs[s].heard /\ new.pc = pc
  BY JobFacts, JobGoesOn
<1>2. GoOn(s, new)
  OBVIOUS
<1> HIDE DEF new
<1>3. QED
  BY <1>1, <1>2, MovesOnIsTame

LEMMA SignInIsTame ==
    ASSUME SessionsInv, CookieInv, NEW s \in Slots,
           SignInRead(s) \/ SignInCreate(s) \/ SignInPassword(s)
    PROVE  CookieInv'
<1> DEFINE job == jobs[s]
           u == job.user
<1>1. TameCookies /\ upset \subseteq upset'
  BY ClientStays DEF SignInRead, SignInCreate, SignInPassword
<1>2. SessionsTypeOK /\ MildRows
  BY SignInIsMild DEF SessionsInv
<1>3. CASE SignInRead(s)
  <2>1. job.pc # "idle" /\ Over(job) /\ job.op # "endSession"
    BY <1>3, NothingYet DEF SignInRead
  <2>2. \/ GoOn(s, [Origin(job, u) EXCEPT !.pc = "issue"])
        \/ GoOn(s, [job EXCEPT !.pc = "create"])
        \/ GoOn(s, Answer(job, FALSE, "keep"))
    BY <1>3 DEF SignInRead
  <2>3. ASSUME \/ GoOn(s, [Origin(job, u) EXCEPT !.pc = "issue"])
               \/ GoOn(s, [job EXCEPT !.pc = "create"])
        PROVE  TameJobs
    BY <1>1, <2>1, <2>3, NamedIsTame, StepIsTame, OriginIsTame
  <2>4. ASSUME GoOn(s, Answer(job, FALSE, "keep")) PROVE TameJobs
    BY <1>1, <2>1, <2>4, AnswerIsTame
  <2>5. QED
    BY <1>1, <1>2, <2>2, <2>3, <2>4, TameStep
<1>4. CASE SignInCreate(s)
  <2>1. job.pc # "idle" /\ Over(job) /\ job.op # "endSession"
    BY <1>4, NothingYet DEF SignInCreate, CookieInv, OneStepEnds
  <2>2. \/ GoOn(s, [Origin(job, u) EXCEPT !.pc = "issue"])
        \/ GoOn(s, [Origin(job, u) EXCEPT !.pc = "password"])
        \/ GoOn(s, Answer(job, FALSE, "keep"))
        \/ Throw(s)
    BY <1>4 DEF SignInCreate, Rejected
  <2>3. ASSUME \/ GoOn(s, [Origin(job, u) EXCEPT !.pc = "issue"])
               \/ GoOn(s, [Origin(job, u) EXCEPT !.pc = "password"])
        PROVE  TameJobs
    BY <1>1, <2>1, <2>3, NamedIsTame, StepIsTame, OriginIsTame
  <2>4. ASSUME GoOn(s, Answer(job, FALSE, "keep")) PROVE TameJobs
    BY <1>1, <2>1, <2>4, AnswerIsTame
  <2>5. ASSUME Throw(s) PROVE TameJobs
    BY <2>1, <2>5, ThrowIsTame
  <2>6. QED
    BY <1>1, <1>2, <2>2, <2>3, <2>4, <2>5, TameStep
<1>5. CASE SignInPassword(s)
  <2>1. job.pc # "idle" /\ Over(job) /\ job.op # "endSession"
    BY <1>5, NothingYet DEF SignInPassword, CookieInv, OneStepEnds
  <2>2. GoOn(s, [job EXCEPT !.pc = "issue"])
    BY <1>5 DEF SignInPassword
  <2>3. TameJobs
    BY <1>1, <2>1, <2>2, NamedIsTame, StepIsTame, OriginIsTame
  <2>4. QED
    BY <1>1, <1>2, <2>3, TameStep
<1>6. QED
  BY <1>3, <1>4, <1>5

LEMMA RefreshReadIsTame ==
    ASSUME SessionsInv, CookieInv, NEW s \in Slots, RefreshRead(s)
    PROVE  CookieInv'
<1> DEFINE job == jobs[s]
           k == job.token
           chosen == [job EXCEPT !.pc = "rotate", !.user = row[k].user, !.login = row[k].login,
                                 !.raced = row[k].raced, !.seen = ends[row[k].user]]
<1>1. /\ TameCookies /\ upset \subseteq upset' /\ job.pc # "idle" /\ Over(job)
      /\ job.op # "endSession"
  BY ClientStays, NothingYet DEF RefreshRead, AtStep
<1>2. SessionsTypeOK /\ job \in Job
  BY JobFacts DEF SessionsInv
<1>3. MildRows
  BY <1>2 DEF RefreshRead, MildRows, SessionsTypeOK, Row
<1>4. /\ chosen.op = job.op /\ chosen.token = job.token /\ chosen.tab = job.tab
      /\ chosen.heard = job.heard /\ chosen.pc = "rotate"
  BY <1>2 DEF Job
<1>5. \/ GoOn(s, Answer(job, FALSE, "keep")) \/ GoOn(s, Answer(job, FALSE, "clear"))
      \/ GoOn(s, [job EXCEPT !.pc = "endAll", !.user = row[k].user])
      \/ GoOn(s, chosen)
  BY DEF RefreshRead
<1> HIDE DEF chosen
<1>6. TameJobs
  <2>1. CASE GoOn(s, Answer(job, FALSE, "keep")) \/ GoOn(s, Answer(job, FALSE, "clear"))
    BY <1>1, <2>1, AnswerIsTame
  <2>2. CASE GoOn(s, [job EXCEPT !.pc = "endAll", !.user = row[k].user])
    <3>1. PICK u : GoOn(s, [job EXCEPT !.pc = "endAll", !.user = u])
      BY <2>2
    <3>2. QED
      BY <1>1, <3>1, NamedIsTame, StepIsTame, OriginIsTame
  <2>3. CASE GoOn(s, chosen)
    BY <1>1, <1>4, <2>3, MovesOnIsTame
  <2>4. QED
    BY <1>5, <2>1, <2>2, <2>3
<1>7. QED
  BY <1>1, <1>2, <1>3, <1>6, TameStep

LEMMA WhoAmIIsTame ==
    ASSUME SessionsInv, CookieInv, NEW s \in Slots, WhoAmI(s)
    PROVE  CookieInv'
<1>1. TameCookies /\ upset \subseteq upset' /\ SessionsTypeOK /\ MildRows
  BY ClientStays, RefusedOrKnownIsMild DEF WhoAmI, SessionsInv
<1>2. jobs[s].pc = "whoami" /\ jobs[s].op # "endSession" /\ UnderWay(jobs[s])
  <2>1. jobs[s].pc = "whoami"
    BY DEF WhoAmI
  <2>2. NewToken(s)
    BY <2>1 DEF CookieInv, NewTokens, IsNew
  <2>3. QED
    BY <2>1, <2>2, JobUnderWay DEF NewToken
<1> DEFINE ok == account[jobs[s].user] \in Live
           set == IF ok THEN "new" ELSE "clear"
<1>3. set \in {"new", "clear"} /\ GoOn(s, Answer(jobs[s], ok, set))
  BY DEF WhoAmI
<1> HIDE DEF ok, set
<1>4. Follows(jobs[s], Answer(jobs[s], ok, set))
  BY <1>1, <1>2, <1>3, KnownFollows
<1>5. TameJobs
  BY <1>1, <1>3, <1>4, FollowsIsTame
<1>6. QED
  BY <1>1, <1>5, TameStep

LEMMA OthersAreTame ==
    ASSUME SessionsInv, CookieInv, NEW s \in Slots,
           \/ RefreshRefused(s) \/ LogoutRead(s) \/ EndAllSessions(s) \/ ResetRead(s) \/ ResetCommit(s)
           \/ EndSession(s) \/ DeleteRead(s) \/ DeleteCommit(s)
    PROVE  CookieInv'
<1> DEFINE job == jobs[s]
<1>1. SessionsTypeOK
  BY DEF SessionsInv
<1>2. MildRows
  BY <1>1, RefusedOrKnownIsMild, EndsAreMild, ResetIsMild, EndSessionIsMild, DeleteIsMild
<1>3. TameCookies /\ upset \subseteq upset'
  BY ClientStays DEF RefreshRefused, LogoutRead, EndAllSessions, ResetRead, ResetCommit, EndSession,
                     DeleteRead, DeleteCommit
<1>4. job.pc \in {"sent", "commit", "endAll"}
  BY DEF RefreshRefused, LogoutRead, EndAllSessions, ResetRead, ResetCommit, EndSession, DeleteRead,
         DeleteCommit, AtStep
<1>5. job.pc # "idle" /\ Over(job)
  BY <1>4, NothingYet
<1>6. \/ \E ok : GoOn(s, Answer(job, ok, "keep")) \/ GoOn(s, Answer(job, ok, "clear"))
      \/ job.op # "endSession" /\ \E u : GoOn(s, [job EXCEPT !.pc = "endAll", !.user = u])
      \/ /\ job.op # "endSession"
         /\ GoOn(s, [job EXCEPT !.pc = "commit"]) \/ GoOn(s, [job EXCEPT !.pc = "endAll"])
      \/ Throw(s)
  <2>1. CASE RefreshRefused(s) \/ LogoutRead(s)
    BY <2>1 DEF RefreshRefused, LogoutRead, AtStep
  <2>2. CASE EndAllSessions(s)
    BY <2>2 DEF EndAllSessions
  <2>3. CASE ResetRead(s) \/ ResetCommit(s)
    BY <2>3 DEF ResetRead, ResetCommit, AtStep
  <2>4. CASE EndSession(s)
    BY <2>4 DEF EndSession
  <2>5. CASE DeleteRead(s) \/ DeleteCommit(s)
    BY <2>5 DEF DeleteRead, DeleteCommit, AtStep
  <2>6. QED
    BY <2>1, <2>2, <2>3, <2>4, <2>5
<1>7. TameJobs
  <2>1. CASE \E ok : GoOn(s, Answer(job, ok, "keep")) \/ GoOn(s, Answer(job, ok, "clear"))
    BY <1>3, <1>5, <2>1, AnswerIsTame
  <2>2. CASE /\ job.op # "endSession"
             /\ \/ \E u : GoOn(s, [job EXCEPT !.pc = "endAll", !.user = u])
                \/ GoOn(s, [job EXCEPT !.pc = "commit"]) \/ GoOn(s, [job EXCEPT !.pc = "endAll"])
    BY <1>3, <1>5, <2>2, NamedIsTame, StepIsTame, OriginIsTame
  <2>3. CASE Throw(s)
    BY <1>5, <2>3, ThrowIsTame
  <2>4. QED
    BY <1>6, <2>1, <2>2, <2>3
<1>8. QED
  BY <1>1, <1>2, <1>3, <1>7, TameStep

-----------------------------------------------------------------------------
(* Back in the browser, and the mishaps *)

\* An answer that carries no new token is heard.
LEMMA OldHeardIsTame ==
    ASSUME SessionsInv, CookieInv, NEW s \in Slots, Heard(s), jobs[s].set # "new"
    PROVE  CookieInv'
<1> DEFINE job == jobs[s]
           t == job.tab
           b == BrowserOf[t]
           k == CookieAfter(job)
<1>1. /\ job.pc = "answer" /\ job.heard /\ SessionsTypeOK /\ job \in Job /\ t \in Tabs
      /\ b \in Browsers
  BY JobFacts, SessionsAssumption DEF Heard, SessionsInv
<1>2. k = IF job.set = "clear" THEN NoToken ELSE cookie[b]
  BY DEF CookieAfter
<1>3. TameCookies /\ upset \subseteq upset' /\ cookie'[b] = k
  BY <1>1, <1>2 DEF Heard, TameCookies, SessionsTypeOK
<1>4. MildRows
  BY <1>1, BackInTheBrowserIsMild
<1>5. Over(job)
  BY <1>1, <1>2, <1>3 DEF Over, Exchanges
<1>6. \/ GoOn(s, Free)
      \/ ClientLogout(t, s, k)
      \/ GoOn(s, Request("refresh", t, auth[t].user))
  BY DEF Heard, AfterFailure
<1>7. \E new : GoOn(s, new) /\ Follows(job, new)
  <2>1. CASE GoOn(s, Free)
    BY <1>5, <2>1, FreeFollows
  <2>2. CASE ClientLogout(t, s, k)
    BY <1>1, <1>2, <1>5, <2>2, ClientLogoutFollows
  <2>3. CASE GoOn(s, Request("refresh", t, auth[t].user))
    BY <1>1, <1>5, <2>3, RequestFollows
  <2>4. QED
    BY <1>6, <2>1, <2>2, <2>3
<1>8. TameJobs
  BY <1>1, <1>7, FollowsIsTame
<1>9. QED
  BY <1>1, <1>3, <1>4, <1>8, TameStep

LEMMA UnheardIsTame ==
    ASSUME SessionsInv, CookieInv, NEW s \in Slots, Unheard(s)
    PROVE  CookieInv'
<1>1. TameCookies /\ upset \subseteq upset' /\ SessionsTypeOK /\ MildRows
  BY ClientStays, BackInTheBrowserIsMild DEF Unheard, SessionsInv
<1>2. Over(jobs[s]) /\ GoOn(s, Free)
  BY NoRefresh DEF Unheard
<1>3. TameJobs
  BY <1>1, <1>2, FreeFollows, FollowsIsTame
<1>4. QED
  BY <1>1, <1>3, TameStep

\* The browser that lost an answer may hold a token that was exchanged.
LEMMA LostIsTame ==
    ASSUME SessionsInv, CookieInv, NEW s \in Slots, Lost(s)
    PROVE  CookieInv'
<1> DEFINE job == jobs[s]
           t == job.tab
           b == BrowserOf[t]
<1>1. job.pc = "lost" /\ SessionsTypeOK /\ t \in Tabs
  BY JobFacts DEF Lost, SessionsInv
<1>2. MildRows
  BY <1>1, BackInTheBrowserIsMild
<1>3. TameCookies /\ upset \subseteq upset' /\ b \in upset'
  BY CookiesStay DEF Lost
<1>4. Over(job)
  BY <1>3 DEF Over, Exchanges
<1>5. \E new : GoOn(s, new) /\ Follows(job, new)
  <2>1. CASE GoOn(s, Free)
    BY <1>4, <2>1, FreeFollows
  <2>2. CASE ClientLogout(t, s, cookie[b])
    BY <1>1, <1>4, <2>2, ClientLogoutFollows
  <2>3. QED
    BY <2>1, <2>2 DEF Lost
<1>6. TameJobs
  BY <1>1, <1>5, FollowsIsTame
<1>7. QED
  BY <1>1, <1>2, <1>3, <1>6, TameStep

LEMMA LoseAnswerIsTame ==
    ASSUME SessionsInv, CookieInv, NEW s \in Slots, LoseAnswer(s)
    PROVE  CookieInv'
<1>1. TameCookies /\ upset \subseteq upset' /\ SessionsTypeOK /\ MildRows
  BY ClientStays, BackInTheBrowserIsMild DEF LoseAnswer, SessionsInv
<1>2. jobs[s].pc # "idle" /\ GoOn(s, Broken(jobs[s]))
  BY DEF LoseAnswer
<1>3. TameJobs
  BY <1>1, <1>2, JobUnderWay, BrokenFollows, FollowsIsTame
<1>4. QED
  BY <1>1, <1>3, TameStep

\* A reloaded tab waits for none of its requests; its browser may miss a token.
LEMMA ReloadIsTame ==
    ASSUME SessionsInv, CookieInv, NEW t \in Tabs, Reload(t)
    PROVE  TameJobs /\ TameCookies /\ upset \subseteq upset'
<1> DEFINE mine(s) == jobs[s].pc # "idle" /\ jobs[s].heard /\ jobs[s].tab = t
<1>1. TameCookies /\ upset \subseteq upset'
  BY CookiesStay DEF Reload
<1>2. ASSUME NEW s \in Slots PROVE jobs'[s] = jobs[s] \/ Follows(jobs[s], jobs'[s])
  <2>1. CASE ~mine(s)
    BY <2>1 DEF Reload
  <2>2. CASE mine(s)
    <3>1. BrowserOf[t] \in upset'
      BY <2>2 DEF Reload
    <3>2. Over(jobs[s])
      BY <2>2, <3>1 DEF Over, Exchanges
    <3>3. UnderWay(jobs[s])
      BY <2>2, JobUnderWay
    <3>4. jobs'[s] = Free \/ jobs'[s] = [jobs[s] EXCEPT !.heard = FALSE]
      BY <2>2 DEF Reload
    <3>5. ASSUME jobs'[s] = [jobs[s] EXCEPT !.heard = FALSE] PROVE Follows(jobs[s], jobs'[s])
      <4>1. /\ jobs'[s].op = jobs[s].op /\ jobs'[s].token = jobs[s].token
            /\ jobs'[s].tab = jobs[s].tab /\ jobs'[s].pc = jobs[s].pc
            /\ jobs'[s].set = jobs[s].set
        BY <3>3, <3>5 DEF UnderWay, Job
      <4>2. TokenFollows(jobs[s], jobs'[s])
        BY <4>1 DEF TokenFollows
      <4>3. NewFollows(jobs[s], jobs'[s])
        BY <4>1 DEF NewFollows, IsNew, CookieInv, NewTokens, NewToken
      <4>4. HeardFollows(jobs'[s])
        BY <2>2, <3>1, <4>1 DEF HeardFollows
      <4>5. ExchangeFollows(jobs[s], jobs'[s]) /\ OpFollows(jobs'[s])
        BY <3>2, <4>1 DEF ExchangeFollows, Over, OpFollows, CookieInv, OneStepEnds
      <4>6. QED
        BY <4>2, <4>3, <4>4, <4>5 DEF Follows
    <3>6. QED
      BY <3>2, <3>4, <3>5, FreeFollows
  <2>3. QED
    BY <2>1, <2>2
<1>3. QED
  BY <1>1, <1>2 DEF TameJobs

LEMMA AskIsTame ==
    ASSUME SessionsInv, CookieInv, NEW t \in Tabs, Ask(t)
    PROVE  CookieInv'
<1>1. SessionsTypeOK /\ MildRows
  BY AskIsMild DEF SessionsInv
<1>2. ASSUME NEW op, NEW u, Click(op, t, u) PROVE TameJobs /\ TameCookies /\ upset \subseteq upset'
  <2>1. PICK s \in Slots : jobs[s].pc = "idle" /\ GoOn(s, Request(op, t, u))
    BY <1>2 DEF Click
  <2>2. TameJobs
    BY <1>1, <2>1, NothingYet, RequestFollows, FollowsIsTame
  <2>3. QED
    BY <1>2, <2>2, ClientStays DEF Click
<1>3. CASE LogoutClick(t)
  <2>1. PICK s \in Slots : jobs[s].pc = "idle" /\ ClientLogout(t, s, cookie[BrowserOf[t]])
    BY <1>3 DEF LogoutClick
  <2>2. \E new : GoOn(s, new) /\ Follows(jobs[s], new)
    BY <2>1, NothingYet, ClientLogoutFollows
  <2>3. TameJobs /\ TameCookies /\ upset \subseteq upset'
    BY <1>1, <1>3, <2>2, FollowsIsTame, CookiesStay DEF LogoutClick
  <2>4. QED
    BY <1>1, <2>3, TameStep
<1>4. ASSUME NEW k \in TokenIds, EndSessionCall(t, k)
      PROVE  TameJobs /\ TameCookies /\ upset \subseteq upset'
  <2> DEFINE request == [Request("endSession", t, auth[t].user) EXCEPT !.token = k]
  <2>1. PICK s \in Slots : jobs[s].pc = "idle" /\ GoOn(s, request)
    BY <1>4 DEF EndSessionCall
  <2>2. request.op = "endSession" /\ request.pc = "sent" /\ request.heard
    BY DEF Request, Free
  <2> HIDE DEF request
  <2>3. Over(jobs[s])
    BY <2>1, NothingYet
  <2>4. Follows(jobs[s], request)
    BY <2>2, <2>3
       DEF Follows, TokenFollows, NewFollows, HeardFollows, ExchangeFollows, OpFollows, IsNew, Over
  <2>5. QED
    BY <1>1, <1>4, <2>1, <2>4, FollowsIsTame, ClientStays DEF EndSessionCall
<1>5. QED
  BY <1>1, <1>2, <1>3, <1>4, ReloadIsTame, TameStep
     DEF Ask, SignInCall, ResetCall, RefreshCall, DeleteCall

LEMMA TheRestIsTame ==
    ASSUME SessionsInv, CookieInv,
           \/ \E u \in Accounts : Forgot(u)
           \/ \E k \in TokenIds : TokenExpires(k)
           \/ \E b \in Browsers : CookieExpires(b)
           \/ Cleanup \/ AccessExpires \/ Crash
    PROVE  CookieInv'
<1>1. SessionsTypeOK /\ MildRows
  BY TheRestIsMild DEF SessionsInv
<1>2. upset \subseteq upset'
  BY DEF Forgot, TokenExpires, CookieExpires, Cleanup, AccessExpires, Crash, client
<1>3. TameCookies
  BY <1>1 DEF Forgot, TokenExpires, CookieExpires, Cleanup, AccessExpires, Crash, client, TameCookies,
              SessionsTypeOK
<1>4. TameJobs
  BY CrashIsTame
     DEF Forgot, TokenExpires, CookieExpires, Cleanup, AccessExpires, Crash, TameJobs
<1>5. QED
  BY <1>1, <1>2, <1>3, <1>4, TameStep

-----------------------------------------------------------------------------
(* The three steps that are not *)

\* The token given out is nobody's, and in the place of the request it is new.
LEMMA IssueKeepsCookies ==
    ASSUME SessionsInv, CookieInv, NEW s \in Slots, Issue(s)
    PROVE  CookieInv'
<1> DEFINE job == jobs[s]
           unused == {k \in TokenIds : row[k].status = "unused"}
           issued == CHOOSE x \in unused : TRUE
<1>1. /\ SessionsTypeOK /\ job \in Job /\ job.tab \in Tabs /\ job.pc = "issue" /\ UnderWay(job)
      /\ job.op # "endSession"
  BY JobFacts, JobUnderWay DEF SessionsInv, Issue, CookieInv, OneStepEnds
<1>2. UNCHANGED <<cookie, upset>> /\ TameCookies /\ upset \subseteq upset'
  BY ClientStays DEF Issue, client
<1>3. ASSUME \/ Throw(s)
             \/ job.op = "google" /\ GoOn(s, Answer(job, FALSE, "keep")) /\ UNCHANGED server
      PROVE  CookieInv'
  <2>1. MildRows
    BY <1>1, <1>3, ThrowIsMild, RowsStay DEF server
  <2>2. TameJobs
    BY <1>1, <1>2, <1>3, NoRefresh, ThrowIsTame, AnswerIsTame
  <2>3. QED
    BY <1>1, <1>2, <2>1, <2>2, TameStep
<1>4. ASSUME /\ unused # {}
             /\ row' = [row EXCEPT ![issued] = IssuedRow(job)]
             /\ GoOn(s, IF job.op = "refresh" THEN [job EXCEPT !.pc = "whoami", !.token = issued]
                        ELSE Answer([job EXCEPT !.token = issued], TRUE, "new"))
      PROVE  CookieInv'
  <2>1. PICK n \in TokenIds : n = issued /\ row[n].status = "unused"
    BY <1>4
  <2>2. IssuedRow(job).uses = 0 /\ IssuedRow(job).status = "live"
    BY DEF IssuedRow, Unused
  <2>3. \A k \in TokenIds : row'[k] = IF k = n THEN IssuedRow(job) ELSE row[k]
    BY <1>1, <1>4, <2>1 DEF SessionsTypeOK
  <2> DEFINE new == IF job.op = "refresh" THEN [job EXCEPT !.pc = "whoami", !.token = n]
                    ELSE Answer([job EXCEPT !.token = n], TRUE, "new")
  <2>4. \A x \in Slots : jobs'[x] = IF x = s THEN new ELSE jobs[x]
    BY <1>1, <1>4, <2>1 DEF SessionsTypeOK, GoOn
  <2>5. /\ new.op = job.op /\ new.tab = job.tab /\ new.heard = job.heard /\ new.token = n
        /\ IsNew(new) /\ new.pc # "idle"
        /\ job.op = "refresh" => new.pc = "whoami"
    <3>1. CASE job.op = "refresh"
      BY <1>1, <3>1 DEF Job, IsNew
    <3>2. CASE job.op # "refresh"
      <4> DEFINE named == [job EXCEPT !.token = n]
      <4>1. /\ named.op = job.op /\ named.tab = job.tab /\ named.heard = job.heard
            /\ named.token = n
        BY <1>1 DEF Job
      <4>2. new = Answer(named, TRUE, "new")
        BY <3>2
      <4> HIDE DEF named, new
      <4> DEFINE a == Answer(named, TRUE, "new")
      <4>3. /\ a.op = named.op /\ a.pc = "answer" /\ a.tab = named.tab /\ a.heard = named.heard
            /\ a.set = "new" /\ a.token = named.token
        BY DEF Answer, Free
      <4> HIDE DEF a
      <4>4. new = a
        BY <4>2 DEF a
      <4>5. QED
        BY <3>2, <4>1, <4>3, <4>4 DEF IsNew
    <3>3. QED
      BY <3>1, <3>2
  <2> HIDE DEF new
  <2>6. /\ \A b \in Browsers : cookie[b] # n
        /\ \A x \in Slots : jobs[x].op # "endSession" => jobs[x].token # n
    BY <2>1 DEF CookieInv, HeldAreIssued
  <2>7. \A b \in Browsers, k \in TokenIds :
           Holds(b, k)' => IF k = n THEN b = BrowserOf[job.tab] ELSE Holds(b, k)
    BY <1>2, <2>4, <2>5, <2>6 DEF Holds, Carrying
  <2>8. HeldAreIssued'
    BY <1>2, <2>2, <2>3, <2>4, <2>5 DEF CookieInv, HeldAreIssued
  <2>9. UnusedAreUnused'
    BY <2>2, <2>3 DEF CookieInv, UnusedAreUnused
  <2>10. HeldByOne'
    BY <2>7 DEF CookieInv, HeldByOne
  <2>11. NewTokens'
    <3>1. NewToken(s)'
      BY <1>1, <1>2, <2>2, <2>3, <2>4, <2>5, <2>6 DEF NewToken
    <3>2. ASSUME NEW x \in Slots, x # s, IsNew(jobs[x]) PROVE NewToken(x)'
      <4>1. NewToken(x)
        BY <3>2 DEF CookieInv, NewTokens
      <4>2. jobs[x].token # n
        BY <2>6, <4>1 DEF NewToken
      <4>3. QED
        BY <1>2, <2>3, <2>4, <2>5, <3>2, <4>1, <4>2 DEF NewToken
    <3>3. QED
      BY <2>4, <3>1, <3>2 DEF NewTokens
  <2>12. AbortedUpset'
    BY <1>1, <1>2, <2>4, <2>5 DEF CookieInv, AbortedUpset
  <2>13. \A b \in Browsers, x \in Slots : Exchanges(jobs[x], b) => Exchanges(jobs'[x], b)
    BY <2>4, <2>5 DEF Exchanges
  <2>14. OnTheWay'
    <3>1. ASSUME NEW b \in Browsers \ upset', cookie'[b] # NoToken, row'[cookie'[b]].uses > 0
          PROVE  \E x \in Slots : Exchanges(jobs'[x], b)
      <4>1. cookie[b] # n /\ cookie[b] \in TokenIds
        BY <1>1, <1>2, <2>6, <3>1 DEF SessionsTypeOK
      <4>2. PICK x \in Slots : Exchanges(jobs[x], b)
        BY <1>2, <2>3, <3>1, <4>1 DEF CookieInv, OnTheWay
      <4>3. QED
        BY <2>13, <4>2
    <3>2. QED
      BY <3>1 DEF OnTheWay
  <2>15. OneStepEnds'
    BY <1>1, <2>4, <2>5 DEF CookieInv, OneStepEnds
  <2>16. QED
    BY <2>8, <2>9, <2>10, <2>11, <2>12, <2>14, <2>15 DEF CookieInv
<1>5. QED
  BY <1>3, <1>4 DEF Issue, Rejected

\* A browser whose token is exchanged is the one that asked: either its tab
\* waits for the answer, or it is upset.
LEMMA RotateKeepsCookies ==
    ASSUME SessionsInv, CookieInv, NEW s \in Slots, Rotate(s)
    PROVE  CookieInv'
<1> DEFINE job == jobs[s]
           k == job.token
           new == [job EXCEPT !.pc = "issue"]
<1>1. /\ SessionsTypeOK /\ job \in Job /\ job.tab \in Tabs /\ job.pc = "rotate"
      /\ job.op = "refresh" /\ UnderWay(job)
  BY JobFacts, JobUnderWay DEF SessionsInv, Rotate, AtStep
<1>2. UNCHANGED <<cookie, upset>> /\ TameCookies /\ upset \subseteq upset'
  BY ClientStays DEF Rotate, client
<1>3. ASSUME Throw(s) PROVE CookieInv'
  BY <1>1, <1>2, <1>3, ThrowIsMild, ThrowIsTame, TameStep
<1>4. ASSUME row' = [row EXCEPT ![k] = Exchanged(row[k])], GoOn(s, new) PROVE CookieInv'
  <2>1. \A n \in TokenIds : row'[n] = IF n = k THEN Exchanged(row[k]) ELSE row[n]
    BY <1>1, <1>4 DEF SessionsTypeOK
  <2>2. k \in TokenIds => Exchanged(row[k]).status = "revoked"
    BY <1>1 DEF SessionsTypeOK, Row, Exchanged
  <2>3. \A x \in Slots : jobs'[x] = IF x = s THEN new ELSE jobs[x]
    BY <1>1, <1>4 DEF SessionsTypeOK, GoOn
  <2>4. /\ new.op = job.op /\ new.tab = job.tab /\ new.heard = job.heard /\ new.token = k
        /\ new.pc = "issue"
    BY <1>1 DEF Job
  <2> HIDE DEF new
  <2>5. \A b \in Browsers, n \in TokenIds : Holds(b, n)' => Holds(b, n)
    BY <1>2, <2>3, <2>4 DEF Holds, Carrying
  <2>6. HeldAreIssued'
    BY <1>1, <1>2, <2>1, <2>2, <2>3, <2>4 DEF CookieInv, HeldAreIssued
  <2>7. UnusedAreUnused'
    BY <2>1, <2>2 DEF CookieInv, UnusedAreUnused
  <2>8. HeldByOne'
    BY <2>5 DEF CookieInv, HeldByOne
  <2>9. NewTokens'
    <3>1. ASSUME NEW x \in Slots, IsNew(jobs'[x]) PROVE NewToken(x)'
      <4>1. x # s /\ jobs'[x] = jobs[x]
        BY <2>3, <2>4, <3>1 DEF IsNew
      <4>2. NewToken(x)
        BY <3>1, <4>1 DEF CookieInv, NewTokens
      <4>3. jobs[x].token # k
        BY <1>1, <4>1, <4>2 DEF NewToken
      <4>4. QED
        BY <1>2, <2>1, <2>3, <2>4, <4>1, <4>2, <4>3 DEF NewToken
    <3>2. QED
      BY <3>1 DEF NewTokens
  <2>10. AbortedUpset'
    BY <1>1, <1>2, <2>3, <2>4 DEF CookieInv, AbortedUpset
  <2>11. OnTheWay'
    <3>1. ASSUME NEW b \in Browsers \ upset', cookie'[b] # NoToken, row'[cookie'[b]].uses > 0
          PROVE  \E x \in Slots : Exchanges(jobs'[x], b)
      <4>1. cookie'[b] = cookie[b] /\ cookie[b] \in TokenIds /\ b \notin upset
        BY <1>1, <1>2, <3>1 DEF SessionsTypeOK
      <4>2. CASE cookie[b] = k
        <5>1. Holds(b, k)
          BY <4>2 DEF Holds
        <5>2. BrowserOf[job.tab] \in Browsers /\ Holds(BrowserOf[job.tab], k)
          BY <1>1, SessionsAssumption DEF Holds, Carrying
        <5>3. b = BrowserOf[job.tab]
          BY <4>1, <4>2, <5>1, <5>2 DEF CookieInv, HeldByOne
        <5>4. job.heard
          BY <1>1, <4>1, <5>3 DEF UnderWay
        <5>5. Exchanges(jobs'[s], b)
          BY <1>1, <2>3, <2>4, <5>3, <5>4 DEF Exchanges
        <5>6. QED
          BY <5>5
      <4>3. CASE cookie[b] # k
        <5>1. PICK x \in Slots : Exchanges(jobs[x], b)
          BY <2>1, <3>1, <4>1, <4>3 DEF CookieInv, OnTheWay
        <5>2. x # s
          BY <1>1, <5>1 DEF Exchanges
        <5>3. QED
          BY <2>3, <5>1, <5>2
      <4>4. QED
        BY <4>2, <4>3
    <3>2. QED
      BY <3>1 DEF OnTheWay
  <2>12. OneStepEnds'
    BY <1>1, <2>3, <2>4 DEF CookieInv, OneStepEnds
  <2>13. QED
    BY <2>6, <2>7, <2>8, <2>9, <2>10, <2>11, <2>12 DEF CookieInv
<1>5. QED
  BY <1>3, <1>4 DEF Rotate

\* The new token becomes the cookie: it has not been exchanged, and neither the
\* cookie it replaces nor a token of another browser is it.
LEMMA NewHeardKeepsCookies ==
    ASSUME SessionsInv, CookieInv, NEW s \in Slots, Heard(s), jobs[s].set = "new"
    PROVE  CookieInv'
<1> DEFINE job == jobs[s]
           t == job.tab
           own == BrowserOf[t]
           k == job.token
<1>1. /\ SessionsTypeOK /\ job \in Job /\ job.pc = "answer" /\ job.heard /\ t \in Tabs
      /\ own \in Browsers
  BY JobFacts, SessionsAssumption DEF SessionsInv, Heard
<1>2. NewToken(s) /\ k \in TokenIds /\ k # NoToken
  BY <1>1, SessionsAssumption DEF CookieInv, NewTokens, NewToken, IsNew, Heard
<1>3. UNCHANGED <<row, upset>>
  BY DEF Heard, server
<1>4. CookieAfter(job) = k
  BY DEF CookieAfter
<1>5. \A b \in Browsers : cookie'[b] = IF b = own THEN k ELSE cookie[b]
  BY <1>1, <1>4 DEF Heard, SessionsTypeOK
<1>6. PICK new : /\ GoOn(s, new)
                 /\ new.pc \in {"idle", "sent"} /\ (new.pc = "sent" => new.heard)
                 /\ new.op # "endSession"
                 /\ new.token = NoToken \/ (new.tab = t /\ new.token \in {k, cookie[own]})
  <2>1. Free.pc = "idle" /\ Free.op # "endSession" /\ Free.token = NoToken
    BY DEF Free
  <2> DEFINE again == Request("refresh", t, auth[t].user)
             out == [Request("logout", t, auth[t].user) EXCEPT !.token = k]
  <2>2. /\ again.pc = "sent" /\ again.heard /\ again.op = "refresh"
        /\ again.tab = t /\ again.token = cookie[own]
    BY DEF Request, Free
  <2>3. /\ out.pc = "sent" /\ out.heard /\ out.op = "logout" /\ out.tab = t /\ out.token = k
    BY DEF Request, Free
  <2>4. GoOn(s, Free) \/ GoOn(s, again) \/ GoOn(s, out)
    BY <1>4 DEF Heard, AfterFailure, ClientLogout
  <2> HIDE DEF again, out
  <2>5. CASE GoOn(s, Free)
    BY <2>1, <2>5
  <2>6. CASE GoOn(s, again)
    BY <2>2, <2>6
  <2>7. CASE GoOn(s, out)
    BY <2>3, <2>7
  <2>8. QED
    BY <2>4, <2>5, <2>6, <2>7
<1>7. \A x \in Slots : jobs'[x] = IF x = s THEN new ELSE jobs[x]
  BY <1>1, <1>6 DEF SessionsTypeOK, GoOn
<1>8. \A b \in Browsers : cookie[b] # k
  BY <1>2 DEF NewToken
<1>9. \A x \in Slots \ {s} : jobs[x].op # "endSession" => jobs[x].token # k
  BY <1>2 DEF NewToken
<1>10. HeldAreIssued'
  <2>1. row[k].status # "unused"
    BY <1>2 DEF NewToken, CookieInv, HeldAreIssued
  <2>2. cookie[own] \in TokenIds => row[cookie[own]].status # "unused"
    BY <1>1 DEF CookieInv, HeldAreIssued
  <2>3. new.token \in TokenIds => row[new.token].status # "unused"
    BY <1>6, <2>1, <2>2, SessionsAssumption
  <2>4. QED
    BY <1>3, <1>5, <1>7, <2>1, <2>3 DEF CookieInv, HeldAreIssued
<1>11. UnusedAreUnused'
  BY <1>3 DEF CookieInv, UnusedAreUnused
<1>12. ASSUME NEW b \in Browsers, NEW n \in TokenIds, Holds(b, n)'
       PROVE  IF n = k THEN b = own ELSE Holds(b, n)
  <2>1. n # NoToken
    BY SessionsAssumption
  <2>2. CASE cookie'[b] = n
    BY <1>5, <1>8, <2>2 DEF Holds
  <2>3. ASSUME NEW x \in Slots, Carrying(jobs'[x], b, n)
        PROVE  IF n = k THEN b = own ELSE Holds(b, n)
    <3>1. CASE x = s
      BY <1>6, <1>7, <2>1, <2>3, <3>1 DEF Carrying, Holds
    <3>2. CASE x # s
      BY <1>7, <1>9, <2>3, <3>2 DEF Carrying, Holds
    <3>3. QED
      BY <3>1, <3>2
  <2>4. QED
    BY <1>12, <2>2, <2>3 DEF Holds
<1>13. HeldByOne'
  BY <1>12 DEF CookieInv, HeldByOne
<1>14. NewTokens'
  <2>1. ASSUME NEW x \in Slots, IsNew(jobs'[x]) PROVE NewToken(x)'
    <3>1. x # s /\ jobs'[x] = jobs[x]
      BY <1>6, <1>7, <2>1 DEF IsNew
    <3>2. NewToken(x)
      BY <2>1, <3>1 DEF CookieInv, NewTokens
    <3>3. jobs[x].token # k /\ jobs[x].token \in TokenIds /\ jobs[x].token # NoToken
      BY <1>9, <3>1, <3>2, SessionsAssumption DEF NewToken
    <3>4. new.token # jobs[x].token
      BY <1>1, <1>6, <3>2, <3>3 DEF NewToken
    <3>5. QED
      BY <1>3, <1>5, <1>7, <3>1, <3>2, <3>3, <3>4 DEF NewToken
  <2>2. QED
    BY <2>1 DEF NewTokens
<1>15. AbortedUpset'
  BY <1>3, <1>6, <1>7 DEF CookieInv, AbortedUpset
<1>16. OnTheWay'
  <2>1. ASSUME NEW b \in Browsers \ upset', cookie'[b] # NoToken, row'[cookie'[b]].uses > 0
        PROVE  \E x \in Slots : Exchanges(jobs'[x], b)
    <3>1. b # own
      BY <1>2, <1>3, <1>5, <2>1 DEF NewToken
    <3>2. PICK x \in Slots : Exchanges(jobs[x], b)
      BY <1>3, <1>5, <2>1, <3>1 DEF CookieInv, OnTheWay
    <3>3. x # s
      BY <3>1, <3>2 DEF Exchanges
    <3>4. QED
      BY <1>7, <3>2, <3>3
  <2>2. QED
    BY <2>1 DEF OnTheWay
<1>17. OneStepEnds'
  BY <1>6, <1>7 DEF CookieInv, OneStepEnds
<1>18. QED
  BY <1>10, <1>11, <1>13, <1>14, <1>15, <1>16, <1>17 DEF CookieInv

-----------------------------------------------------------------------------
LEMMA InitCookies == SessionsInit => CookieInv
<1> SUFFICES ASSUME SessionsInit PROVE CookieInv
  OBVIOUS
<1>1. \A s \in Slots : jobs[s].pc = "idle" /\ jobs[s].op = "none" /\ jobs[s].token = NoToken
  BY DEF SessionsInit, Free
<1>2. NoToken \notin TokenIds
  BY SessionsAssumption
<1>3. NewTokens /\ AbortedUpset /\ OneStepEnds
  BY <1>1 DEF NewTokens, IsNew, AbortedUpset, OneStepEnds
<1>4. \A k \in TokenIds : row[k].uses = 0
  <2>1. CASE NewAccount
    BY <2>1 DEF NewAccount, Unused
  <2>2. ASSUME NEW u, NEW b, NEW x, SignedIn(u, b, x) PROVE \A k \in TokenIds : row[k].uses = 0
    BY <2>2 DEF SignedIn, Unused
  <2>3. QED
    BY <2>1, <2>2 DEF SessionsInit
<1> DEFINE OneCookie ==
             /\ \A b \in Browsers : cookie[b] \in TokenIds => row[cookie[b]].status # "unused"
             /\ \A b, c \in Browsers : cookie[b] \in TokenIds /\ cookie[b] = cookie[c] => b = c
             /\ \A b \in Browsers : cookie[b] \in TokenIds \union {NoToken}
<1>5. OneCookie
  <2>1. CASE NewAccount
    BY <1>2, <2>1 DEF NewAccount
  <2>2. ASSUME NEW u, NEW d, NEW x \in TokenIds, SignedIn(u, d, x) PROVE OneCookie
    BY <1>2, <2>2 DEF SignedIn, Unused
  <2>3. (CHOOSE k \in TokenIds : TRUE) \in TokenIds
    BY SessionsAssumption
  <2>4. QED
    BY <2>1, <2>2, <2>3 DEF SessionsInit
<1>6. HeldAreIssued /\ UnusedAreUnused /\ HeldByOne /\ OnTheWay
  BY <1>1, <1>2, <1>4, <1>5 DEF HeldAreIssued, UnusedAreUnused, HeldByOne, Holds, Carrying, OnTheWay
<1>7. QED
  BY <1>3, <1>6 DEF CookieInv

LEMMA NextCookies == SessionsInv /\ CookieInv /\ [SessionsNext]_sessionsVars => CookieInv'
<1> SUFFICES ASSUME SessionsInv, CookieInv, [SessionsNext]_sessionsVars PROVE CookieInv'
  OBVIOUS
<1>1. ASSUME NEW s \in Slots, Serve(s) PROVE CookieInv'
  BY <1>1, SignInIsTame, IssueKeepsCookies, RefreshReadIsTame, RotateKeepsCookies, WhoAmIIsTame,
     OthersAreTame, OldHeardIsTame, NewHeardKeepsCookies, UnheardIsTame, LostIsTame DEF Serve
<1>2. ASSUME NEW s \in Slots, RefreshRefused(s) \/ LoseAnswer(s) PROVE CookieInv'
  BY <1>2, OthersAreTame, LoseAnswerIsTame
<1>3. ASSUME NEW t \in Tabs, Ask(t) PROVE CookieInv'
  BY <1>3, AskIsTame
<1>4. CASE \/ \E u \in Accounts : Forgot(u)
           \/ \E k \in TokenIds : TokenExpires(k)
           \/ \E b \in Browsers : CookieExpires(b)
           \/ Cleanup \/ AccessExpires \/ Crash
  BY <1>4, TheRestIsTame
<1>5. CASE UNCHANGED sessionsVars
  <2>1. SessionsTypeOK /\ MildRows /\ TameJobs /\ TameCookies /\ upset \subseteq upset'
    BY <1>5, RowsStay, CookiesStay DEF SessionsInv, sessionsVars, server, client, TameJobs
  <2>2. QED
    BY <2>1, TameStep
<1>6. QED
  BY <1>1, <1>2, <1>3, <1>4, <1>5 DEF SessionsNext

\* Whatever tabs, reloads, refusals and crashes interleave, a browser holds a
\* token that was exchanged only while the exchange is under way or after an
\* answer of its was lost (auth.ts rotateRefreshToken, api/client.ts).
THEOREM CookiesAreCurrent == SessionsSpec => []CookieIsCurrent
<1>1. CookieInv => CookieIsCurrent
  BY DEF CookieInv, OnTheWay, CookieIsCurrent, Exchanges
<1>2. QED
  BY <1>1, InitCookies, NextCookies, InitSound, NextSound, PTL DEF SessionsSpec

=============================================================================
