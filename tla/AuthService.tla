---------------------------- MODULE AuthService -----------------------------
(***************************************************************************)
(* The server's side of signing in: the login endpoint with its limiter    *)
(* (two counters in Redis, each read and written in calls of its own, and  *)
(* a fallback in the process's memory when Redis does not answer), and the *)
(* login records behind the refresh tokens.                                *)
(***************************************************************************)
EXTENDS Naturals, FiniteSets

CONSTANTS
    Clients,    \* browsers; each has one login attempt at a time
    Accounts,   \* subjects of the limiter
    Ip,         \* the address all clients share
    Sessions,   \* login records, by the jti of their refresh token
    None,
    Limit,      \* login_failed_limit
    MaxWrong,   \* bound: no further wrong password is recorded for an account
    MaxFaults   \* bound: Redis time-outs and process deaths

ASSUME AuthConstants ==
    /\ IsFiniteSet(Clients) /\ Ip \notin Accounts
    /\ None \notin Sessions \cup Accounts \cup {Ip}
    /\ Limit \in Nat \ {0} /\ MaxWrong \in Nat /\ MaxFaults \in Nat

Keys == Accounts \cup {Ip}

VARIABLES
    count,     \* Redis: the counter and whether it expires
    memory,    \* the process's own counters
    attempt,   \* the login request of every client
    record,    \* login_records: "none", "live" or "revoked"
    wrong,     \* history: failed attempts recorded since the account's counter was gone
    faults

serviceVars == <<count, memory, attempt, record, wrong, faults>>

Stages == {"idle", "subject", "ip", "verify", "record", "incSubject", "ttlSubject",
           "incIp", "ttlIp", "clear", "issue"}
NoAttempt == [stage |-> "idle", account |-> None, blocked |-> FALSE]

ServiceTypeOK ==
    /\ count \in [Keys -> [n: Nat, ttl: BOOLEAN]]
    /\ memory \in [Keys -> Nat]
    /\ attempt \in [Clients -> [stage: Stages, account: Accounts \cup {None}, blocked: BOOLEAN]]
    /\ record \in [Sessions -> {"none", "live", "revoked"}]
    /\ wrong \in [Accounts -> Nat]
    /\ faults \in 0..MaxFaults

ServiceInit ==
    /\ count = [k \in Keys |-> [n |-> 0, ttl |-> FALSE]]
    /\ memory = [k \in Keys |-> 0]
    /\ attempt = [c \in Clients |-> NoAttempt]
    /\ record = [s \in Sessions |-> "none"]
    /\ wrong = [a \in Accounts |-> 0]
    /\ faults = 0

-----------------------------------------------------------------------------
At(c, stage) == attempt[c].stage = stage
Go(c, stage) == attempt' = [attempt EXCEPT ![c].stage = stage]
Faulty == faults < MaxFaults /\ faults' = faults + 1
Answer(c) == attempt' = [attempt EXCEPT ![c] = NoAttempt]

StartLogin(c, a) ==
    /\ At(c, "idle")
    /\ attempt' = [attempt EXCEPT ![c] = [stage |-> "subject", account |-> a, blocked |-> FALSE]]
    /\ UNCHANGED <<count, memory, record, wrong, faults>>

\* Mutation: the limit itself is still allowed.
OverLimit(n) == n > Limit

AtLimit(n) == n >= Limit

\* _get_count of one key: Redis answers, or the process's own counter does.
CountRead(k, n) ==
    \/ n = count[k].n /\ UNCHANGED faults
    \/ n = memory[k] /\ Faulty

ReadSubject(c) ==
    /\ At(c, "subject")
    /\ \E n \in {count[attempt[c].account].n, memory[attempt[c].account]} :
        /\ CountRead(attempt[c].account, n)
        /\ attempt' = [attempt EXCEPT ![c] =
                        [stage |-> "ip", account |-> @.account, blocked |-> AtLimit(n)]]
    /\ UNCHANGED <<count, memory, record, wrong>>

\* The second read, and the answer 429 or the way to the password.
ReadIp(c) ==
    /\ At(c, "ip")
    /\ \E n \in {count[Ip].n, memory[Ip]} :
        /\ CountRead(Ip, n)
        /\ IF attempt[c].blocked \/ AtLimit(n) THEN Answer(c) ELSE Go(c, "verify")
    /\ UNCHANGED <<count, memory, record, wrong>>

VerifyWrong(c) ==
    /\ At(c, "verify")
    /\ Go(c, "record")
    /\ UNCHANGED <<count, memory, record, wrong, faults>>

\* The failed attempt is committed before the limiter hears of it.
RecordAttempt(c) ==
    LET a == attempt[c].account IN
    /\ At(c, "record")
    /\ wrong[a] < MaxWrong
    /\ wrong' = [wrong EXCEPT ![a] = @ + 1]
    /\ Go(c, "incSubject")
    /\ UNCHANGED <<count, memory, record, faults>>

VerifyRight(c) ==
    /\ At(c, "verify")
    /\ Go(c, "clear")
    /\ UNCHANGED <<count, memory, record, wrong, faults>>

\* Mutation: the window starts with the first failure over the limit.
WindowOverLimit(n) == n > Limit

WindowStarts(n) == n = 1

\* _increment: INCR, then EXPIRE in a call of its own when the key is new; a
\* call that times out, done by Redis or not, counts in the process's memory.
Increment(c, k, ttl, next) ==
    \/ /\ count' = [count EXCEPT ![k].n = @ + 1]
       /\ Go(c, IF WindowStarts(count[k].n + 1) THEN ttl ELSE next)
       /\ UNCHANGED <<memory, faults>>
    \/ /\ Faulty
       /\ memory' = [memory EXCEPT ![k] = @ + 1]
       /\ Go(c, next)
       /\ count' = [count EXCEPT ![k].n = @ + 1] \/ UNCHANGED count

SetExpiry(c, k, next) ==
    /\ \/ /\ count' = [count EXCEPT ![k].ttl = count[k].n > 0]
          /\ UNCHANGED <<memory, faults>>
       \/ /\ Faulty
          /\ memory' = [memory EXCEPT ![k] = @ + 1]
          /\ UNCHANGED count
    /\ Go(c, next)

CountFailure(c) ==
    /\ \/ At(c, "incSubject") /\ Increment(c, attempt[c].account, "ttlSubject", "incIp")
       \/ At(c, "ttlSubject") /\ SetExpiry(c, attempt[c].account, "incIp")
    /\ UNCHANGED <<record, wrong>>

CountAddress(c) ==
    /\ \/ /\ At(c, "incIp")
          /\ \/ /\ WindowStarts(count[Ip].n + 1)
                /\ Increment(c, Ip, "ttlIp", "idle")
             \/ /\ ~WindowStarts(count[Ip].n + 1)
                /\ Increment(c, Ip, "idle", "idle")
       \/ At(c, "ttlIp") /\ SetExpiry(c, Ip, "idle")
    /\ UNCHANGED <<record, wrong>>

\* The window is over, or the keys are deleted: a new count begins.
Dropped(keys) == [k \in Keys |-> IF k \in keys THEN [n |-> 0, ttl |-> FALSE] ELSE count[k]]
Forgiven(keys) == [a \in Accounts |-> IF a \in keys THEN 0 ELSE wrong[a]]

Expire(k) ==
    /\ count[k].ttl
    /\ count' = Dropped({k})
    /\ wrong' = Forgiven({k})
    /\ UNCHANGED <<memory, attempt, record, faults>>

\* The window of the process's own counter is over.
ExpireMemory(k) ==
    /\ memory[k] > 0
    /\ memory' = [memory EXCEPT ![k] = 0]
    /\ UNCHANGED <<count, attempt, record, wrong, faults>>

\* clear: both keys, after a successful login; or the process's own two.
ClearFailures(c) ==
    LET keys == {attempt[c].account, Ip} IN
    /\ At(c, "clear")
    /\ \/ /\ count' = Dropped(keys)
          /\ wrong' = Forgiven(keys)
          /\ UNCHANGED <<memory, faults>>
       \/ /\ Faulty
          /\ memory' = [k \in Keys |-> IF k \in keys THEN 0 ELSE memory[k]]
          /\ UNCHANGED <<count, wrong>>
    /\ Go(c, "issue")
    /\ UNCHANGED record

\* The login record is committed and the tokens are answered; the jti is new,
\* and which of the unused ones it is makes no difference.
Issue(c, s) ==
    /\ At(c, "issue") /\ record[s] = "none"
    /\ s = CHOOSE r \in Sessions : record[r] = "none"
    /\ record' = [record EXCEPT ![s] = "live"]
    /\ Answer(c)
    /\ UNCHANGED <<count, memory, wrong, faults>>

\* The same for a client whose session nobody follows.
IssueElsewhere(c) ==
    /\ At(c, "issue")
    /\ Answer(c)
    /\ UNCHANGED <<count, memory, record, wrong, faults>>

\* The database fails, or refuses the row: the answer is 500, nothing of the
\* login is stored, and a wrong password is counted nowhere.
LoginFails(c) ==
    /\ attempt[c].stage \in {"verify", "record", "issue"}
    /\ Answer(c)
    /\ UNCHANGED <<count, memory, record, wrong, faults>>

\* The process dies: its requests and its memory are gone.
Restart ==
    /\ Faulty
    /\ attempt' = [c \in Clients |-> NoAttempt]
    /\ memory' = [k \in Keys |-> 0]
    /\ UNCHANGED <<count, record, wrong>>

LimiterNext ==
    \/ \E c \in Clients :
        \/ ReadSubject(c) \/ ReadIp(c)
        \/ VerifyWrong(c) \/ VerifyRight(c) \/ RecordAttempt(c) \/ LoginFails(c)
        \/ CountFailure(c) \/ CountAddress(c) \/ ClearFailures(c)
    \/ \E k \in Keys : Expire(k) \/ ExpireMemory(k)
    \/ Restart

-----------------------------------------------------------------------------
(***************************************************************************)
(* Refresh and logout.                                                     *)
(***************************************************************************)
\* Mutation: the record's revocation is not looked at.
AnyRecord(s) == record[s] # "none"

RefreshAllowed(s) == record[s] = "live"

Revoke(s) ==
    /\ record' = [record EXCEPT ![s] = "revoked"]
    /\ UNCHANGED <<count, memory, attempt, wrong, faults>>

-----------------------------------------------------------------------------
\* Between two ends of its counter the failed attempts on record for an account
\* exceed the limit by no more than the logins that were under way together:
\* once more after every fault, which can lose the counts of all of them
\* (the login reads at auth.py:117 and counts at :129, after the commit of the
\* row at :128).  A wrong password whose row was not stored is in neither.
RecordedFailuresBounded ==
    \A a \in Accounts :
        wrong[a] <= (Limit - 1) + Cardinality(Clients) * (1 + faults)

\* A counter expires, is about to be given its window, or lost it to a fault
\* between INCR and EXPIRE (login_limiter.py:90-92): that one locks for good.
CountersExpire ==
    \A k \in Keys : count[k].n > 0 =>
        \/ count[k].ttl
        \/ faults > 0
        \/ \E c \in Clients : \/ At(c, "ttlSubject") /\ attempt[c].account = k
                              \/ At(c, "ttlIp") /\ k = Ip
=============================================================================
