----------------------------- MODULE AuthProofs -----------------------------
(***************************************************************************)
(* Proofs about signing in, for any number of clients, accounts and        *)
(* sessions and any bound on faults: counters expire, the failures on      *)
(* record are bounded, and the browser holds the session of the last login *)
(***************************************************************************)
EXTENDS AuthStore, FiniteSetTheorems, TLAPS

\* A request for the login page's user has begun: nobody is logged in.
LoginIsFirst == attempt[Browser].stage # "idle" => current = None

\* A refresh that no logout overtook is of the session the user is in.
RefreshIsOfCurrent ==
    refresh # NoRefresh => refresh.session \in Sessions /\ (refresh.session = current \/ raced)

\* Requests past their first read have an account.
AttemptsHaveAccounts ==
    \A c \in Clients : attempt[c].stage # "idle" => attempt[c].account \in Accounts

AuthInductive ==
    /\ TypeOK
    /\ AttemptsHaveAccounts /\ CountersExpire
    /\ LoginIsFirst /\ RefreshIsOfCurrent /\ SessionIsLastLogin

LEMMA AuthInit == Init => AuthInductive
<1> SUFFICES ASSUME Init PROVE AuthInductive
  OBVIOUS
<1> USE AuthConstants, StoreConstants DEF Init, ServiceInit
<1>1. TypeOK
  <2>1. NoAttempt \in [stage: Stages, account: Accounts \cup {None}, blocked: BOOLEAN]
    BY DEF NoAttempt, Stages
  <2>2. ServiceTypeOK
    BY <2>1 DEF ServiceTypeOK
  <2>3. NoRefresh \in [state: RefreshStates, session: Sessions \cup {None}]
    BY DEF NoRefresh, RefreshStates
  <2> QED BY <2>2, <2>3 DEF TypeOK
<1>2. AttemptsHaveAccounts /\ CountersExpire
  BY DEF AttemptsHaveAccounts, CountersExpire, NoAttempt
<1>3. LoginIsFirst /\ RefreshIsOfCurrent /\ SessionIsLastLogin
  BY DEF LoginIsFirst, RefreshIsOfCurrent, SessionIsLastLogin
<1> QED BY <1>1, <1>2, <1>3 DEF AuthInductive

-----------------------------------------------------------------------------
\* A step that moves one attempt from a stage in which no window is awaited, and
\* leaves the counters alone, keeps the half of the limiter.
LEMMA MoveKeeps ==
    ASSUME AuthInductive, NEW c \in Clients, NEW new,
           new \in [stage: Stages, account: Accounts \cup {None}, blocked: BOOLEAN],
           new.stage # "idle" => new.account \in Accounts,
           attempt[c].stage \notin {"ttlSubject", "ttlIp"},
           attempt' = [attempt EXCEPT ![c] = new],
           UNCHANGED <<count, memory>>,
           faults' \in {faults, faults + 1}, faults' \in 0..MaxFaults,
           wrong' \in [Accounts -> Nat],
           record' \in [Sessions -> {"none", "live", "revoked"}]
    PROVE ServiceTypeOK' /\ AttemptsHaveAccounts' /\ CountersExpire'
<1> USE AuthConstants DEF AuthInductive
<1>1. /\ attempt' \in [Clients -> [stage: Stages, account: Accounts \cup {None}, blocked: BOOLEAN]]
      /\ attempt'[c] = new
      /\ \A d \in Clients : d # c => attempt'[d] = attempt[d]
  BY DEF TypeOK, ServiceTypeOK
<1>2. ServiceTypeOK'
  BY <1>1 DEF TypeOK, ServiceTypeOK
<1>3. AttemptsHaveAccounts'
  BY <1>1 DEF AttemptsHaveAccounts
<1>4. faults > 0 => faults' > 0
  BY DEF TypeOK, ServiceTypeOK
<1>5. CountersExpire'
  BY <1>1, <1>4 DEF CountersExpire, At
<1> QED BY <1>2, <1>3, <1>5

\* A step of the limiter leaves the store's half as it is, if the browser's
\* attempt began before it.
LEMMA StoreKeeps ==
    ASSUME AuthInductive, UNCHANGED storeVars,
           attempt'[Browser].stage # "idle" => attempt[Browser].stage # "idle" \/ current = None
    PROVE /\ ServiceTypeOK' => TypeOK'
          /\ LoginIsFirst' /\ RefreshIsOfCurrent' /\ SessionIsLastLogin'
<1> USE DEF AuthInductive, storeVars
<1>1. ServiceTypeOK' => TypeOK'
  BY DEF TypeOK
<1>2. LoginIsFirst' /\ RefreshIsOfCurrent' /\ SessionIsLastLogin'
  BY DEF LoginIsFirst, RefreshIsOfCurrent, SessionIsLastLogin, NoRefresh
<1> QED BY <1>1, <1>2

-----------------------------------------------------------------------------
(***************************************************************************)
(* The limiter.                                                            *)
(***************************************************************************)
LimiterHolds == ServiceTypeOK /\ AttemptsHaveAccounts /\ CountersExpire

LEMMA GoIsAMove ==
    ASSUME AuthInductive, NEW c \in Clients, NEW stage \in Stages, Go(c, stage),
           attempt[c].stage # "idle"
    PROVE \E new \in [stage: Stages, account: Accounts \cup {None}, blocked: BOOLEAN] :
            /\ new.stage = stage /\ new.account = attempt[c].account
            /\ new.account \in Accounts
            /\ attempt' = [attempt EXCEPT ![c] = new]
<1>1. attempt[c] \in [stage: Stages, account: Accounts \cup {None}, blocked: BOOLEAN]
  BY DEF AuthInductive, TypeOK, ServiceTypeOK
<1>2. attempt[c].account \in Accounts
  BY DEF AuthInductive, AttemptsHaveAccounts
<1> DEFINE new == [attempt[c] EXCEPT !.stage = stage]
<1>3. /\ new \in [stage: Stages, account: Accounts \cup {None}, blocked: BOOLEAN]
      /\ new.stage = stage /\ new.account = attempt[c].account
  BY <1>1
<1>4. attempt' = [attempt EXCEPT ![c] = new]
  BY DEF Go
<1> HIDE DEF new
<1> QED BY <1>2, <1>3, <1>4

LEMMA GoKeeps ==
    ASSUME AuthInductive, NEW c \in Clients, NEW stage \in Stages, Go(c, stage),
           attempt[c].stage \notin {"idle", "ttlSubject", "ttlIp"},
           UNCHANGED <<count, memory>>,
           faults' \in {faults, faults + 1}, faults' \in 0..MaxFaults,
           wrong' \in [Accounts -> Nat],
           record' \in [Sessions -> {"none", "live", "revoked"}]
    PROVE LimiterHolds'
<1>1. PICK new \in [stage: Stages, account: Accounts \cup {None}, blocked: BOOLEAN] :
        /\ new.stage = stage /\ new.account = attempt[c].account
        /\ new.account \in Accounts
        /\ attempt' = [attempt EXCEPT ![c] = new]
  BY GoIsAMove
<1> QED BY <1>1, MoveKeeps DEF LimiterHolds

\* The steps that leave the counters alone.
LEMMA ReadsKeep ==
    ASSUME AuthInductive, NEW c \in Clients,
           \/ ReadSubject(c) \/ ReadIp(c) \/ VerifyWrong(c) \/ VerifyRight(c)
           \/ RecordAttempt(c) \/ LoginFails(c)
           \/ IssueElsewhere(c) \/ \E s \in Sessions : Issue(c, s)
           \/ \E a \in Accounts : StartLogin(c, a)
    PROVE LimiterHolds'
<1> USE DEF LimiterHolds
<1>1. /\ faults \in 0..MaxFaults /\ attempt[c] \in [stage: Stages, account: Accounts \cup {None}, blocked: BOOLEAN]
      /\ wrong \in [Accounts -> Nat] /\ record \in [Sessions -> {"none", "live", "revoked"}]
      /\ MaxFaults \in Nat /\ NoAttempt \in [stage: Stages, account: Accounts \cup {None}, blocked: BOOLEAN]
      /\ NoAttempt.stage = "idle"
      /\ attempt[c].stage # "idle" => attempt[c].account \in Accounts
  BY AuthConstants DEF AuthInductive, TypeOK, ServiceTypeOK, NoAttempt, Stages, AttemptsHaveAccounts
<1>2. CASE ReadSubject(c)
  <2>1. PICK n \in {count[attempt[c].account].n, memory[attempt[c].account]} :
          /\ CountRead(attempt[c].account, n)
          /\ attempt' = [attempt EXCEPT ![c] =
                [stage |-> "ip", account |-> @.account, blocked |-> AtLimit(n)]]
    BY <1>2 DEF ReadSubject
  <2> DEFINE new == [stage |-> "ip", account |-> attempt[c].account, blocked |-> AtLimit(n)]
  <2>2. AtLimit(n) \in BOOLEAN /\ attempt[c].stage = "subject"
    BY <1>2 DEF AtLimit, ReadSubject, At
  <2>3. /\ new \in [stage: Stages, account: Accounts \cup {None}, blocked: BOOLEAN]
        /\ new.account \in Accounts
        /\ attempt' = [attempt EXCEPT ![c] = new]
    <3>1. new \in [stage: Stages, account: Accounts \cup {None}, blocked: BOOLEAN]
      BY <1>1, <2>2 DEF Stages
    <3>2. attempt' = [attempt EXCEPT ![c] = new]
      BY <2>1
    <3> QED BY <1>1, <2>2, <3>1, <3>2
  <2>4. faults' \in {faults, faults + 1} /\ faults' \in 0..MaxFaults
    BY <1>1, <2>1 DEF CountRead, Faulty
  <2> HIDE DEF new
  <2>5. UNCHANGED <<count, memory, record, wrong>>
    BY <1>2 DEF ReadSubject
  <2> QED BY <1>1, <2>2, <2>3, <2>4, <2>5, MoveKeeps
<1>3. CASE ReadIp(c)
  <2>1. PICK n \in {count[Ip].n, memory[Ip]} :
          /\ CountRead(Ip, n)
          /\ IF attempt[c].blocked \/ AtLimit(n) THEN Answer(c) ELSE Go(c, "verify")
    BY <1>3 DEF ReadIp
  <2>2. faults' \in {faults, faults + 1} /\ faults' \in 0..MaxFaults
    BY <1>1, <2>1 DEF CountRead, Faulty
  <2>3. UNCHANGED <<count, memory, record, wrong>> /\ attempt[c].stage = "ip"
    BY <1>3 DEF ReadIp, At
  <2>4. CASE Answer(c)
    BY <1>1, <2>2, <2>3, <2>4, MoveKeeps DEF Answer
  <2>5. CASE Go(c, "verify")
    BY <1>1, <2>2, <2>3, <2>5, GoKeeps DEF Stages
  <2> QED BY <2>1, <2>4, <2>5
<1>4. CASE VerifyWrong(c) \/ VerifyRight(c) \/ RecordAttempt(c)
  <2>1. \E stage \in {"record", "incSubject", "clear"} : Go(c, stage)
    BY <1>4 DEF VerifyWrong, VerifyRight, RecordAttempt
  <2>2. UNCHANGED <<count, memory, record, faults>> /\ attempt[c].stage \in {"verify", "record"}
    BY <1>4 DEF VerifyWrong, VerifyRight, RecordAttempt, At
  <2>3. wrong' \in [Accounts -> Nat]
    BY <1>1, <1>4, <2>2 DEF VerifyWrong, VerifyRight, RecordAttempt
  <2> QED BY <1>1, <2>1, <2>2, <2>3, GoKeeps DEF Stages
<1>5. CASE LoginFails(c) \/ IssueElsewhere(c) \/ \E s \in Sessions : Issue(c, s)
  <2>1. /\ Answer(c) /\ UNCHANGED <<count, memory, wrong, faults>>
        /\ attempt[c].stage \in {"verify", "record", "issue"}
        /\ record' \in [Sessions -> {"none", "live", "revoked"}]
    BY <1>1, <1>5 DEF LoginFails, IssueElsewhere, Issue, At
  <2> QED BY <1>1, <2>1, MoveKeeps DEF Answer
<1>6. CASE \E a \in Accounts : StartLogin(c, a)
  <2>1. PICK a \in Accounts : StartLogin(c, a)
    BY <1>6
  <2> DEFINE new == [stage |-> "subject", account |-> a, blocked |-> FALSE]
  <2>2. new \in [stage: Stages, account: Accounts \cup {None}, blocked: BOOLEAN] /\ new.account \in Accounts
    BY DEF Stages
  <2>3. /\ attempt[c].stage = "idle" /\ attempt' = [attempt EXCEPT ![c] = new]
        /\ UNCHANGED <<count, memory, record, wrong, faults>>
    BY <2>1 DEF StartLogin, At
  <2> HIDE DEF new
  <2> QED BY <1>1, <2>2, <2>3, MoveKeeps
<1> QED BY <1>2, <1>3, <1>4, <1>5, <1>6

\* The steps that count a failure: the stage says which key.
LEMMA CountsKeep ==
    ASSUME AuthInductive, NEW c \in Clients, CountFailure(c) \/ CountAddress(c)
    PROVE LimiterHolds'
<1> USE AuthConstants DEF LimiterHolds
<1>1. /\ faults \in 0..MaxFaults /\ MaxFaults \in Nat
      /\ count \in [Keys -> [n: Nat, ttl: BOOLEAN]] /\ memory \in [Keys -> Nat]
      /\ attempt \in [Clients -> [stage: Stages, account: Accounts \cup {None}, blocked: BOOLEAN]]
      /\ wrong \in [Accounts -> Nat] /\ record \in [Sessions -> {"none", "live", "revoked"}]
      /\ attempt[c].stage # "idle" => attempt[c].account \in Accounts
  BY DEF AuthInductive, TypeOK, ServiceTypeOK, AttemptsHaveAccounts
\* The key that is counted, and the stage in which its window is awaited.
<1>2. \E k \in Keys, ttl \in {"ttlSubject", "ttlIp"}, next \in {"incIp", "idle"} :
        /\ (ttl = "ttlSubject" /\ k = attempt[c].account) \/ (ttl = "ttlIp" /\ k = Ip)
        /\ \/ Increment(c, k, ttl, next) /\ attempt[c].stage \in {"incSubject", "incIp"}
           \/ SetExpiry(c, k, next) /\ attempt[c].stage = ttl
  <2>1. CASE CountFailure(c)
    <3>1. attempt[c].stage \in {"incSubject", "ttlSubject"}
      BY <2>1 DEF CountFailure, At
    <3>2. attempt[c].account \in Keys
      BY <1>1, <3>1 DEF Keys
    <3> QED BY <2>1, <3>2 DEF CountFailure, At
  <2>2. CASE CountAddress(c)
    <3>1. Ip \in Keys
      BY DEF Keys
    <3>2. ASSUME At(c, "incIp"), Increment(c, Ip, "idle", "idle"), ~WindowStarts(count[Ip].n + 1)
          PROVE Increment(c, Ip, "ttlIp", "idle")
      BY <3>2 DEF Increment
    <3> QED BY <2>2, <3>1, <3>2 DEF CountAddress, At
  <2> QED BY <2>1, <2>2
<1>3. PICK k \in Keys, ttl \in {"ttlSubject", "ttlIp"}, next \in {"incIp", "idle"} :
        /\ (ttl = "ttlSubject" /\ k = attempt[c].account) \/ (ttl = "ttlIp" /\ k = Ip)
        /\ \/ Increment(c, k, ttl, next) /\ attempt[c].stage \in {"incSubject", "incIp"}
           \/ SetExpiry(c, k, next) /\ attempt[c].stage = ttl
  BY <1>2
<1>4. UNCHANGED <<record, wrong>>
  BY DEF CountFailure, CountAddress
<1>5. PICK stage \in {ttl, next} : Go(c, stage)
  BY <1>3 DEF Increment, SetExpiry
<1>6. PICK new \in [stage: Stages, account: Accounts \cup {None}, blocked: BOOLEAN] :
        /\ new.stage = stage /\ new.account = attempt[c].account
        /\ new.account \in Accounts
        /\ attempt' = [attempt EXCEPT ![c] = new]
  BY <1>3, <1>5, GoIsAMove DEF Stages
<1>7. /\ attempt' \in [Clients -> [stage: Stages, account: Accounts \cup {None}, blocked: BOOLEAN]]
      /\ attempt'[c].stage = stage /\ attempt'[c].account = attempt[c].account
      /\ \A d \in Clients : d # c => attempt'[d] = attempt[d]
  BY <1>1, <1>6
<1>8. /\ faults' \in 0..MaxFaults /\ (faults > 0 => faults' > 0)
      /\ memory' \in [Keys -> Nat] /\ count' \in [Keys -> [n: Nat, ttl: BOOLEAN]]
      /\ \A j \in Keys : j # k => count'[j] = count[j]
  <2>1. CASE Increment(c, k, ttl, next)
    <3>1. /\ count' = [count EXCEPT ![k].n = @ + 1] \/ UNCHANGED count
          /\ memory' = [memory EXCEPT ![k] = @ + 1] \/ UNCHANGED memory
      BY <2>1 DEF Increment
    <3>2. UNCHANGED faults \/ (faults' = faults + 1 /\ faults < MaxFaults)
      BY <2>1 DEF Increment, Faulty
    <3>3. \A row \in [n: Nat, ttl: BOOLEAN] : [row EXCEPT !.n = @ + 1] \in [n: Nat, ttl: BOOLEAN]
      OBVIOUS
    <3>4. count' \in [Keys -> [n: Nat, ttl: BOOLEAN]] /\ \A j \in Keys : j # k => count'[j] = count[j]
      <4>1. CASE UNCHANGED count
        BY <1>1, <4>1
      <4>2. CASE count' = [count EXCEPT ![k] = [count[k] EXCEPT !.n = @ + 1]]
        BY <1>1, <1>3, <3>3, <4>2
      <4> QED BY <3>1, <4>1, <4>2
    <3>5. memory' \in [Keys -> Nat]
      BY <1>1, <1>3, <3>1
    <3> QED BY <1>1, <3>2, <3>4, <3>5
  <2>2. CASE SetExpiry(c, k, next)
    <3>1. \A row \in [n: Nat, ttl: BOOLEAN], b \in BOOLEAN :
            [row EXCEPT !.ttl = b] \in [n: Nat, ttl: BOOLEAN]
      OBVIOUS
    <3>2. CASE UNCHANGED <<memory, faults>>
      <4>1. count' = [count EXCEPT ![k] = [count[k] EXCEPT !.ttl = (count[k].n > 0)]]
        BY <1>1, <2>2, <3>2 DEF SetExpiry, Faulty
      <4>2. (count[k].n > 0) \in BOOLEAN
        OBVIOUS
      <4>3. [count[k] EXCEPT !.ttl = (count[k].n > 0)] \in [n: Nat, ttl: BOOLEAN]
        BY <1>1, <3>1, <4>2, ZenonT(40)
      <4> QED BY <1>1, <3>2, <4>1, <4>3
    <3>3. CASE ~UNCHANGED <<memory, faults>>
      <4>1. /\ faults' = faults + 1 /\ faults < MaxFaults /\ UNCHANGED count
            /\ memory' = [memory EXCEPT ![k] = @ + 1]
        BY <2>2, <3>3 DEF SetExpiry, Faulty
      <4> QED BY <1>1, <4>1
    <3> QED BY <3>2, <3>3
  <2> QED BY <1>3, <2>1, <2>2
<1>9. ServiceTypeOK' /\ AttemptsHaveAccounts'
  BY <1>1, <1>4, <1>6, <1>7, <1>8 DEF ServiceTypeOK, AttemptsHaveAccounts, AuthInductive
<1>10. CountersExpire'
  <2> SUFFICES ASSUME NEW j \in Keys, count'[j].n > 0
               PROVE \/ count'[j].ttl
                     \/ faults' > 0
                     \/ \E d \in Clients :
                          \/ attempt'[d].stage = "ttlSubject" /\ attempt'[d].account = j
                          \/ attempt'[d].stage = "ttlIp" /\ j = Ip
    BY DEF CountersExpire, At
  <2>1. count[j].n > 0 => \/ count[j].ttl
                          \/ faults > 0
                          \/ \E d \in Clients :
                               \/ attempt[d].stage = "ttlSubject" /\ attempt[d].account = j
                               \/ attempt[d].stage = "ttlIp" /\ j = Ip
    BY DEF AuthInductive, CountersExpire, At
\* The key this attempt waits for is its own.
  <2>2. CASE j # k
    <3>1. count[j].n > 0 /\ count'[j] = count[j]
      BY <1>8, <2>2
    <3>2. ~(attempt[c].stage = "ttlSubject" /\ attempt[c].account = j) /\ ~(attempt[c].stage = "ttlIp" /\ j = Ip)
      BY <1>1, <1>3, <2>2
    <3> QED BY <1>7, <1>8, <2>1, <3>1, <3>2
  <2>3. CASE j = k /\ UNCHANGED faults /\ SetExpiry(c, k, next)
    <3>1. count'[k].ttl = (count[k].n > 0) /\ count'[k].n = count[k].n
      BY <1>1, <2>3 DEF SetExpiry, Faulty
    <3> QED BY <2>3, <3>1
  <2>4. CASE j = k /\ UNCHANGED faults /\ Increment(c, k, ttl, next) /\ attempt[c].stage \in {"incSubject", "incIp"}
    <3>1. /\ count'[k].n = count[k].n + 1 /\ count'[k].ttl = count[k].ttl
          /\ Go(c, IF WindowStarts(count[k].n + 1) THEN ttl ELSE next)
      BY <1>1, <2>4 DEF Increment, Faulty
    <3>2. CASE count[k].n = 0
      <4>1. attempt'[c].stage = ttl
        BY <1>1, <3>1, <3>2 DEF Go, WindowStarts
      <4> QED BY <1>3, <1>7, <2>4, <4>1
    <3>3. CASE count[k].n > 0
      BY <1>7, <1>8, <2>1, <2>4, <3>1, <3>3
    <3> QED BY <1>1, <3>2, <3>3
  <2>5. CASE ~UNCHANGED faults
    BY <1>1, <1>3, <2>5 DEF Increment, SetExpiry, Faulty
  <2> QED BY <1>3, <2>2, <2>3, <2>4, <2>5
<1> QED BY <1>9, <1>10

\* The ends of windows, the success that clears, and the death of the process.
LEMMA DropsKeep ==
    ASSUME AuthInductive,
           \/ \E k \in Keys : Expire(k) \/ ExpireMemory(k)
           \/ \E c \in Clients : ClearFailures(c)
           \/ Restart
    PROVE LimiterHolds'
<1> USE AuthConstants DEF LimiterHolds
<1>1. /\ faults \in 0..MaxFaults /\ MaxFaults \in Nat
      /\ count \in [Keys -> [n: Nat, ttl: BOOLEAN]] /\ memory \in [Keys -> Nat]
      /\ attempt \in [Clients -> [stage: Stages, account: Accounts \cup {None}, blocked: BOOLEAN]]
      /\ wrong \in [Accounts -> Nat] /\ record \in [Sessions -> {"none", "live", "revoked"}]
      /\ AttemptsHaveAccounts /\ CountersExpire
  BY DEF AuthInductive, TypeOK, ServiceTypeOK
<1>2. \A keys \in SUBSET Keys :
        /\ Dropped(keys) \in [Keys -> [n: Nat, ttl: BOOLEAN]]
        /\ Forgiven(keys) \in [Accounts -> Nat]
        /\ \A j \in Keys : Dropped(keys)[j] = count[j] \/ Dropped(keys)[j].n = 0
  BY <1>1 DEF Dropped, Forgiven
<1>3. ASSUME NEW k \in Keys, Expire(k) PROVE LimiterHolds'
  <2>1. /\ count' \in [Keys -> [n: Nat, ttl: BOOLEAN]] /\ wrong' \in [Accounts -> Nat]
        /\ \A j \in Keys : count'[j] = count[j] \/ count'[j].n = 0
        /\ UNCHANGED <<memory, attempt, record, faults>>
    BY <1>2, <1>3 DEF Expire
  <2>2. ServiceTypeOK' /\ AttemptsHaveAccounts'
    BY <1>1, <2>1 DEF ServiceTypeOK, AttemptsHaveAccounts
  <2>3. CountersExpire'
    BY <1>1, <2>1 DEF CountersExpire, At
  <2> QED BY <2>2, <2>3
<1>4. ASSUME NEW k \in Keys, ExpireMemory(k) PROVE LimiterHolds'
  <2>1. memory' \in [Keys -> Nat] /\ UNCHANGED <<count, attempt, record, wrong, faults>>
    BY <1>1, <1>4 DEF ExpireMemory
  <2> QED BY <1>1, <2>1 DEF ServiceTypeOK, AttemptsHaveAccounts, CountersExpire, At
<1>5. ASSUME NEW c \in Clients, ClearFailures(c) PROVE LimiterHolds'
  <2> DEFINE keys == {attempt[c].account, Ip}
  <2>1. /\ attempt[c].stage = "clear" /\ Go(c, "issue") /\ UNCHANGED record
        /\ \/ count' = Dropped(keys) /\ wrong' = Forgiven(keys) /\ UNCHANGED <<memory, faults>>
           \/ /\ Faulty /\ UNCHANGED <<count, wrong>>
              /\ memory' = [k \in Keys |-> IF k \in keys THEN 0 ELSE memory[k]]
    BY <1>5 DEF ClearFailures, At
  <2>2. keys \in SUBSET Keys
    BY <1>1, <2>1 DEF AttemptsHaveAccounts, Keys
  <2> HIDE DEF keys
  <2>3. /\ count' \in [Keys -> [n: Nat, ttl: BOOLEAN]] /\ wrong' \in [Accounts -> Nat]
        /\ memory' \in [Keys -> Nat]
        /\ \A j \in Keys : count'[j] = count[j] \/ count'[j].n = 0
    BY <1>1, <1>2, <2>1, <2>2, SMTT(30)
  <2>4. faults' \in 0..MaxFaults /\ (faults > 0 => faults' > 0)
    BY <1>1, <2>1 DEF Faulty
  <2>5. PICK new \in [stage: Stages, account: Accounts \cup {None}, blocked: BOOLEAN] :
          /\ new.stage = "issue" /\ new.account = attempt[c].account
          /\ new.account \in Accounts
          /\ attempt' = [attempt EXCEPT ![c] = new]
    BY <2>1, GoIsAMove DEF Stages
  <2>6. /\ attempt' \in [Clients -> [stage: Stages, account: Accounts \cup {None}, blocked: BOOLEAN]]
        /\ attempt'[c] = new /\ \A d \in Clients : d # c => attempt'[d] = attempt[d]
    BY <1>1, <2>5
  <2>7. ServiceTypeOK' /\ AttemptsHaveAccounts'
    BY <1>1, <2>1, <2>3, <2>4, <2>5, <2>6 DEF ServiceTypeOK, AttemptsHaveAccounts
  <2>8. CountersExpire'
    <3> SUFFICES ASSUME NEW j \in Keys, count'[j].n > 0
                 PROVE \/ count'[j].ttl
                       \/ faults' > 0
                       \/ \E d \in Clients :
                            \/ attempt'[d].stage = "ttlSubject" /\ attempt'[d].account = j
                            \/ attempt'[d].stage = "ttlIp" /\ j = Ip
      BY DEF CountersExpire, At
    <3>1. count'[j] = count[j]
      BY <2>3
    <3>2. \/ count[j].ttl
          \/ faults > 0
          \/ \E d \in Clients :
               \/ attempt[d].stage = "ttlSubject" /\ attempt[d].account = j
               \/ attempt[d].stage = "ttlIp" /\ j = Ip
      BY <1>1, <3>1 DEF CountersExpire, At
    <3> QED BY <2>1, <2>4, <2>6, <3>1, <3>2
  <2> QED BY <2>7, <2>8
<1>6. CASE Restart
  <2>1. /\ faults' = faults + 1 /\ faults' \in 0..MaxFaults
        /\ attempt' = [c \in Clients |-> NoAttempt] /\ memory' = [k \in Keys |-> 0]
        /\ UNCHANGED <<count, record, wrong>>
    BY <1>1, <1>6 DEF Restart, Faulty
  <2>2. NoAttempt \in [stage: Stages, account: Accounts \cup {None}, blocked: BOOLEAN]
        /\ NoAttempt.stage = "idle"
    BY DEF NoAttempt, Stages
  <2>3. ServiceTypeOK' /\ AttemptsHaveAccounts'
    BY <1>1, <2>1, <2>2 DEF ServiceTypeOK, AttemptsHaveAccounts
  <2>4. CountersExpire'
    BY <1>1, <2>1 DEF CountersExpire
  <2> QED BY <2>3, <2>4
<1> QED BY <1>3, <1>4, <1>5, <1>6

\* The limiter starts nobody's attempt.
LEMMA LimiterStep ==
    ASSUME AuthInductive, LimiterNext, UNCHANGED storeVars
    PROVE AuthInductive'
<1>1. LimiterHolds'
  BY ReadsKeep, CountsKeep, DropsKeep DEF LimiterNext
<1>2. attempt'[Browser].stage # "idle" => attempt[Browser].stage # "idle"
  <2> SUFFICES ASSUME attempt[Browser].stage = "idle" PROVE attempt'[Browser] = attempt[Browser] \/ attempt'[Browser].stage = "idle"
    OBVIOUS
  <2>1. attempt \in [Clients -> [stage: Stages, account: Accounts \cup {None}, blocked: BOOLEAN]]
    BY DEF AuthInductive, TypeOK, ServiceTypeOK
  <2>2. ASSUME NEW c \in Clients,
               \/ ReadSubject(c) \/ ReadIp(c) \/ VerifyWrong(c) \/ VerifyRight(c)
               \/ RecordAttempt(c) \/ CountFailure(c) \/ CountAddress(c) \/ ClearFailures(c) \/ LoginFails(c)
        PROVE attempt'[Browser] = attempt[Browser]
    <3>1. attempt[c].stage # "idle"
      BY <2>2 DEF ReadSubject, ReadIp, VerifyWrong, VerifyRight, RecordAttempt, LoginFails,
                  CountFailure, CountAddress,
                  ClearFailures, At
    <3>2. \E new : attempt' = [attempt EXCEPT ![c] = new]
      BY <2>2 DEF ReadSubject, ReadIp, VerifyWrong, VerifyRight, RecordAttempt, LoginFails,
                  CountFailure, CountAddress,
                  ClearFailures, Increment, SetExpiry, Go, Answer
    <3> QED BY <2>1, <3>1, <3>2, StoreConstants
  <2>3. ASSUME NEW k \in Keys, Expire(k) \/ ExpireMemory(k) PROVE attempt'[Browser] = attempt[Browser]
    BY <2>3 DEF Expire, ExpireMemory
  <2>4. CASE Restart
    BY <2>4, StoreConstants DEF Restart, NoAttempt
  <2> QED BY <2>2, <2>3, <2>4 DEF LimiterNext
<1>3. /\ ServiceTypeOK' => TypeOK'
      /\ LoginIsFirst' /\ RefreshIsOfCurrent' /\ SessionIsLastLogin'
  BY <1>2, StoreKeeps
<1> QED BY <1>1, <1>3 DEF AuthInductive, LimiterHolds

-----------------------------------------------------------------------------
(***************************************************************************)
(* The browser's store.                                                    *)
(***************************************************************************)
LEMMA SubmitKeeps ==
    ASSUME AuthInductive, NEW c \in Clients, NEW a \in Accounts, Submit(c, a)
    PROVE AuthInductive'
<1>1. LimiterHolds'
  BY ReadsKeep DEF Submit
<1>2. attempt'[Browser].stage # "idle" => attempt[Browser].stage # "idle" \/ current = None
  <2>1. CASE c = Browser
    BY <2>1 DEF Submit
  <2>2. CASE c # Browser
    BY <2>2, StoreConstants DEF Submit, StartLogin, AuthInductive, TypeOK, ServiceTypeOK
  <2> QED BY <2>1, <2>2
<1>3. /\ ServiceTypeOK' => TypeOK'
      /\ LoginIsFirst' /\ RefreshIsOfCurrent' /\ SessionIsLastLogin'
  BY <1>2, StoreKeeps DEF Submit
<1> QED BY <1>1, <1>3 DEF AuthInductive, LimiterHolds

LEMMA OtherLoggedInKeeps ==
    ASSUME AuthInductive, NEW c \in Clients, OtherLoggedIn(c)
    PROVE AuthInductive'
<1>1. LimiterHolds'
  BY ReadsKeep DEF OtherLoggedIn
<1>2. attempt'[Browser] = attempt[Browser]
  BY StoreConstants DEF OtherLoggedIn, IssueElsewhere, Answer, AuthInductive, TypeOK, ServiceTypeOK
<1>3. /\ ServiceTypeOK' => TypeOK'
      /\ LoginIsFirst' /\ RefreshIsOfCurrent' /\ SessionIsLastLogin'
  BY <1>2, StoreKeeps DEF OtherLoggedIn
<1> QED BY <1>1, <1>3 DEF AuthInductive, LimiterHolds

\* A login follows no other: what is refreshed meanwhile was left before.
LEMMA LoggedInKeeps ==
    ASSUME AuthInductive, NEW s \in Sessions, LoggedIn(s)
    PROVE AuthInductive'
<1> USE StoreConstants, AuthConstants DEF AuthInductive
<1>1. LimiterHolds'
  BY ReadsKeep DEF LoggedIn
<1>2. /\ attempt[Browser].stage = "issue" /\ attempt'[Browser].stage = "idle"
      /\ tokens' = s /\ current' = s /\ raced' = (raced /\ refresh # NoRefresh)
      /\ UNCHANGED <<refresh, leaving>>
  BY DEF LoggedIn, Issue, At, Answer, NoAttempt, TypeOK, ServiceTypeOK
<1>3. current = None
  BY <1>2 DEF LoginIsFirst
<1>4. refresh # NoRefresh => raced
  BY <1>3 DEF RefreshIsOfCurrent
<1>5. TypeOK'
  BY <1>1, <1>2 DEF LimiterHolds, TypeOK
<1>6. LoginIsFirst' /\ RefreshIsOfCurrent' /\ SessionIsLastLogin'
  BY <1>2, <1>4 DEF LoginIsFirst, RefreshIsOfCurrent, SessionIsLastLogin, NoRefresh
<1> QED BY <1>1, <1>5, <1>6 DEF LimiterHolds

\* What leaves the service alone, or revokes a record.
LEMMA StoreStep ==
    ASSUME AuthInductive,
           \/ StartRefresh \/ ServeRefresh \/ RefreshAnswered \/ RefreshFailed \/ Logout
           \/ \E s \in Sessions : ServeLogout(s)
    PROVE AuthInductive'
<1> USE StoreConstants, AuthConstants DEF AuthInductive
<1>1. LimiterHolds'
  <2>1. /\ UNCHANGED <<count, memory, attempt, wrong, faults>>
        /\ record' \in [Sessions -> {"none", "live", "revoked"}]
    BY DEF StartRefresh, ServeRefresh, RefreshAnswered, RefreshFailed, Logout, ServeLogout, Revoke,
           serviceVars, TypeOK, ServiceTypeOK
  <2> QED BY <2>1 DEF LimiterHolds, TypeOK, ServiceTypeOK, AttemptsHaveAccounts, CountersExpire, At
<1>2. UNCHANGED attempt
  BY DEF StartRefresh, ServeRefresh, RefreshAnswered, RefreshFailed, Logout, ServeLogout, Revoke,
         serviceVars
<1>3. NoRefresh \in [state: RefreshStates, session: Sessions \cup {None}]
  BY DEF NoRefresh, RefreshStates
<1>4. CASE StartRefresh
  <2>1. /\ refresh' = [state |-> "sent", session |-> tokens] /\ tokens \in Sessions
        /\ UNCHANGED <<tokens, leaving, current, raced>>
    BY <1>4 DEF StartRefresh, TypeOK
  <2>2. TypeOK'
    BY <1>1, <2>1 DEF TypeOK, LimiterHolds, RefreshStates
  <2>3. LoginIsFirst' /\ RefreshIsOfCurrent' /\ SessionIsLastLogin'
    BY <1>2, <2>1 DEF LoginIsFirst, RefreshIsOfCurrent, SessionIsLastLogin
  <2> QED BY <1>1, <2>2, <2>3 DEF LimiterHolds
<1>5. CASE ServeRefresh
  <2>1. /\ refresh' = [refresh EXCEPT !.state = "granted"] /\ refresh.state = "sent"
        /\ UNCHANGED <<tokens, leaving, current, raced>>
    BY <1>5 DEF ServeRefresh
  <2>2. /\ refresh' \in [state: RefreshStates, session: Sessions \cup {None}]
        /\ refresh # NoRefresh /\ refresh'.session = refresh.session
    BY <2>1 DEF TypeOK, RefreshStates, NoRefresh
  <2>3. TypeOK'
    BY <1>1, <2>1, <2>2 DEF TypeOK, LimiterHolds
  <2>4. LoginIsFirst' /\ RefreshIsOfCurrent' /\ SessionIsLastLogin'
    BY <1>2, <2>1, <2>2 DEF LoginIsFirst, RefreshIsOfCurrent, SessionIsLastLogin
  <2> QED BY <1>1, <2>3, <2>4 DEF LimiterHolds
<1>6. CASE RefreshAnswered
  <2>1. /\ refresh # NoRefresh /\ tokens' = refresh.session /\ refresh' = NoRefresh
        /\ UNCHANGED <<leaving, current, raced>>
    BY <1>6 DEF RefreshAnswered, NoRefresh
  <2>2. TypeOK'
    BY <1>1, <1>3, <2>1 DEF TypeOK, LimiterHolds
  <2>3. LoginIsFirst' /\ RefreshIsOfCurrent' /\ SessionIsLastLogin'
    BY <1>2, <2>1 DEF LoginIsFirst, RefreshIsOfCurrent, SessionIsLastLogin, NoRefresh
  <2> QED BY <1>1, <2>2, <2>3 DEF LimiterHolds
<1>7. CASE RefreshFailed \/ Logout
  <2>1. tokens' = None /\ current' = None
    BY <1>7 DEF RefreshFailed, Logout, AfterLogout
  <2>2. \/ refresh' = NoRefresh /\ UNCHANGED <<leaving, raced>>
        \/ refresh' = refresh /\ raced' = (refresh # NoRefresh) /\ leaving' \in SUBSET Sessions
    BY <1>7 DEF RefreshFailed, Logout, TypeOK
  <2>3. TypeOK'
    BY <1>1, <1>3, <2>1, <2>2 DEF TypeOK, LimiterHolds
  <2>4. LoginIsFirst' /\ RefreshIsOfCurrent' /\ SessionIsLastLogin'
    BY <1>2, <2>1, <2>2 DEF LoginIsFirst, RefreshIsOfCurrent, SessionIsLastLogin, NoRefresh
  <2> QED BY <1>1, <2>3, <2>4 DEF LimiterHolds
<1>8. CASE \E s \in Sessions : ServeLogout(s)
  <2>1. leaving' \in SUBSET Sessions /\ UNCHANGED <<tokens, refresh, current, raced>>
    BY <1>8 DEF ServeLogout, TypeOK
  <2>2. TypeOK' /\ LoginIsFirst' /\ RefreshIsOfCurrent' /\ SessionIsLastLogin'
    BY <1>1, <1>2, <2>1 DEF TypeOK, LimiterHolds, LoginIsFirst, RefreshIsOfCurrent,
                            SessionIsLastLogin, NoRefresh
  <2> QED BY <1>1, <2>2 DEF LimiterHolds
<1> QED BY <1>4, <1>5, <1>6, <1>7, <1>8

-----------------------------------------------------------------------------
LEMMA AuthStep == AuthInductive /\ [Next]_vars => AuthInductive'
<1> SUFFICES ASSUME AuthInductive, [Next]_vars PROVE AuthInductive'
  OBVIOUS
<1>1. CASE UNCHANGED vars
  BY <1>1 DEF vars, serviceVars, storeVars, AuthInductive, TypeOK, ServiceTypeOK,
              AttemptsHaveAccounts, CountersExpire, At, LoginIsFirst, RefreshIsOfCurrent,
              SessionIsLastLogin, NoRefresh
<1> QED BY <1>1, SubmitKeeps, OtherLoggedInKeeps, LoggedInKeeps, StoreStep, LimiterStep DEF Next

\* The inductive invariant holds in every reachable state.
THEOREM AuthInvariant == Spec => []AuthInductive
<1> QED BY AuthInit, AuthStep, PTL DEF Spec

\* Counters, attempts, records and the store have their types.
THEOREM AuthTypes == Spec => []TypeOK
<1>1. AuthInductive => TypeOK
  BY DEF AuthInductive
<1> QED BY <1>1, AuthInvariant, PTL

\* Without a fault no counter stays for ever (login_limiter.py:90).
THEOREM EveryCounterExpires == Spec => []CountersExpire
<1>1. AuthInductive => CountersExpire
  BY DEF AuthInductive
<1> QED BY <1>1, AuthInvariant, PTL

\* The browser's tokens are those of the last login, unless a refresh was under
\* way at the logout (auth.ts:64).
THEOREM TokensAreOfTheLastLogin == Spec => []SessionIsLastLogin
<1>1. AuthInductive => SessionIsLastLogin
  BY DEF AuthInductive
<1> QED BY <1>1, AuthInvariant, PTL
-----------------------------------------------------------------------------
(***************************************************************************)
(* How many passwords can be guessed.                                      *)
(***************************************************************************)
\* The failures that are recorded and not yet counted, and the logins that the
\* limiter let pass and whose failure is not yet recorded.
Counting(a) == {c \in Clients : At(c, "incSubject") /\ attempt[c].account = a}
Trying(a) ==
    {c \in Clients : /\ attempt[c].account = a
                     /\ At(c, "verify") \/ At(c, "record") \/ (At(c, "ip") /\ ~attempt[c].blocked)}

\* A fault can lose the counts of all logins at once.
Lost == Cardinality(Clients) * faults

\* What is not counted yet is about to be, or was lost to a fault.
CountsFollow ==
    \A a \in Accounts : wrong[a] <= count[a].n + Cardinality(Counting(a)) + Lost

\* With those that already passed the limiter the bound is kept.
TriesBounded ==
    \A a \in Accounts :
        wrong[a] + Cardinality(Trying(a)) <= (Limit - 1) + Cardinality(Clients) + Lost

GuessInductive == AuthInductive /\ CountsFollow /\ TriesBounded

\* Two sets that differ at most in one element.
LEMMA OneElementApart ==
    ASSUME NEW S, NEW T, NEW x, IsFiniteSet(S), IsFiniteSet(T), S \ {x} = T \ {x}
    PROVE Cardinality(T) = Cardinality(S) - (IF x \in S THEN 1 ELSE 0) + (IF x \in T THEN 1 ELSE 0)
<1>1. /\ Cardinality(S \ {x}) = IF x \in S THEN Cardinality(S) - 1 ELSE Cardinality(S)
      /\ Cardinality(T \ {x}) = IF x \in T THEN Cardinality(T) - 1 ELSE Cardinality(T)
  BY FS_RemoveElement
<1>2. Cardinality(S) \in Nat /\ Cardinality(T) \in Nat
  BY FS_CardinalityType
<1>3. Cardinality(S \ {x}) = Cardinality(T \ {x})
  OBVIOUS
<1> QED BY <1>1, <1>2, <1>3

LEMMA LostGrows ==
    ASSUME AuthInductive
    PROVE /\ Cardinality(Clients) \in Nat /\ Lost \in Nat
          /\ UNCHANGED faults => Lost' = Lost
          /\ faults' = faults + 1 => Lost' = Lost + Cardinality(Clients)
<1>1. Cardinality(Clients) \in Nat /\ faults \in Nat
  BY AuthConstants, FS_CardinalityType DEF AuthInductive, TypeOK, ServiceTypeOK
<1>2. \A m, n \in Nat : m * n \in Nat /\ m * (n + 1) = m * n + m
  OBVIOUS
<1> QED BY <1>1, <1>2 DEF Lost

\* A client is in at most one of the two sets.
LEMMA FewerThanClients ==
    ASSUME NEW a
    PROVE /\ IsFiniteSet(Counting(a)) /\ IsFiniteSet(Trying(a))
          /\ Cardinality(Counting(a)) \in Nat /\ Cardinality(Trying(a)) \in Nat
          /\ \A c \in Clients \ (Counting(a) \cup Trying(a)) :
                Cardinality(Counting(a)) + Cardinality(Trying(a)) < Cardinality(Clients)
          /\ Cardinality(Counting(a)) + Cardinality(Trying(a)) <= Cardinality(Clients)
<1> DEFINE S == Counting(a)
           T == Trying(a)
<1>1. S \subseteq Clients /\ T \subseteq Clients /\ S \cap T = {}
  BY DEF Counting, Trying, At
<1> HIDE DEF S, T
<1>2. IsFiniteSet(S) /\ IsFiniteSet(T) /\ IsFiniteSet(S \cup T) /\ S \cup T \subseteq Clients
  BY <1>1, AuthConstants, FS_Subset, FS_Union
<1>3. Cardinality(S) \in Nat /\ Cardinality(T) \in Nat /\ Cardinality(Clients) \in Nat
      /\ Cardinality(S \cup T) \in Nat
  BY <1>2, AuthConstants, FS_CardinalityType
<1>4. Cardinality(S \cup T) = Cardinality(S) + Cardinality(T)
  <2>1. Cardinality(S \cup T) = Cardinality(S) + Cardinality(T) - Cardinality(S \cap T)
    BY <1>2, FS_Union
  <2>2. Cardinality(S \cap T) = 0
    BY <1>1, FS_EmptySet
  <2> QED BY <1>3, <2>1, <2>2
<1>5. Cardinality(S \cup T) <= Cardinality(Clients)
      /\ (Cardinality(S \cup T) = Cardinality(Clients) => S \cup T = Clients)
  BY <1>2, AuthConstants, FS_Subset
<1>6. /\ Cardinality(S) + Cardinality(T) <= Cardinality(Clients)
      /\ \A c \in Clients \ (S \cup T) : Cardinality(S) + Cardinality(T) < Cardinality(Clients)
  BY <1>3, <1>4, <1>5
<1> QED BY <1>2, <1>3, <1>6 DEF S, T

LEMMA GuessInit == Init => CountsFollow /\ TriesBounded
<1> SUFFICES ASSUME Init, NEW a \in Accounts
             PROVE /\ wrong[a] <= count[a].n + Cardinality(Counting(a)) + Lost
                   /\ wrong[a] + Cardinality(Trying(a)) <= (Limit - 1) + Cardinality(Clients) + Lost
  BY DEF CountsFollow, TriesBounded
<1>1. wrong[a] = 0 /\ count[a].n = 0
  BY DEF Init, ServiceInit, Keys
<1>2. AuthInductive
  BY AuthInit
<1> QED BY <1>1, <1>2, LostGrows, FewerThanClients, AuthConstants

\* What one login's step adds to or takes from the two sets.
LEMMA OneMoves ==
    ASSUME NEW c \in Clients, NEW a, \A d \in Clients \ {c} : attempt'[d] = attempt[d]
    PROVE /\ Cardinality(Counting(a)') = Cardinality(Counting(a))
                - (IF c \in Counting(a) THEN 1 ELSE 0) + (IF c \in Counting(a)' THEN 1 ELSE 0)
          /\ Cardinality(Trying(a)') = Cardinality(Trying(a))
                - (IF c \in Trying(a) THEN 1 ELSE 0) + (IF c \in Trying(a)' THEN 1 ELSE 0)
<1>1. Counting(a)' \subseteq Clients /\ Trying(a)' \subseteq Clients
  BY DEF Counting, Trying
<1>2. IsFiniteSet(Counting(a)') /\ IsFiniteSet(Trying(a)')
  BY <1>1, AuthConstants, FS_Subset
<1>3. Counting(a) \ {c} = Counting(a)' \ {c} /\ Trying(a) \ {c} = Trying(a)' \ {c}
  BY DEF Counting, Trying, At
<1>4. IsFiniteSet(Counting(a)) /\ IsFiniteSet(Trying(a))
  BY FewerThanClients
<1>5. \A S, T : IsFiniteSet(S) /\ IsFiniteSet(T) /\ S \ {c} = T \ {c} =>
        Cardinality(T) = Cardinality(S) - (IF c \in S THEN 1 ELSE 0) + (IF c \in T THEN 1 ELSE 0)
  BY OneElementApart
<1> QED BY <1>2, <1>3, <1>4, <1>5

\* A step of the login of c: it reads, verifies, counts or ends.
LEMMA LoginGuesses ==
    ASSUME GuessInductive, NEW c \in Clients,
           \/ ReadSubject(c) \/ ReadIp(c) \/ VerifyWrong(c) \/ VerifyRight(c)
           \/ RecordAttempt(c) \/ LoginFails(c) \/ CountFailure(c) \/ CountAddress(c)
           \/ IssueElsewhere(c) \/ \E s \in Sessions : Issue(c, s)
           \/ \E a \in Accounts : StartLogin(c, a)
    PROVE CountsFollow' /\ TriesBounded'
<1> USE AuthConstants DEF GuessInductive
<1>1. /\ faults \in Nat /\ (attempt[c].stage # "idle" => attempt[c].account \in Accounts)
      /\ count \in [Keys -> [n: Nat, ttl: BOOLEAN]] /\ wrong \in [Accounts -> Nat]
      /\ attempt \in [Clients -> [stage: Stages, account: Accounts \cup {None}, blocked: BOOLEAN]]
      /\ Cardinality(Clients) \in Nat /\ Lost \in Nat /\ Limit \in Nat
  BY LostGrows DEF AuthInductive, TypeOK, ServiceTypeOK, AttemptsHaveAccounts
<1>2. \E new : attempt' = [attempt EXCEPT ![c] = new]
  BY DEF ReadSubject, ReadIp, VerifyWrong, VerifyRight, RecordAttempt, LoginFails, CountFailure,
         CountAddress, Increment, SetExpiry, IssueElsewhere, Issue, StartLogin, Go, Answer
<1>3. \A d \in Clients \ {c} : attempt'[d] = attempt[d]
  BY <1>1, <1>2
<1> SUFFICES ASSUME NEW a \in Accounts
             PROVE /\ wrong'[a] <= count'[a].n + Cardinality(Counting(a)') + Lost'
                   /\ wrong'[a] + Cardinality(Trying(a)') <= (Limit - 1) + Cardinality(Clients) + Lost'
  BY DEF CountsFollow, TriesBounded
<1> DEFINE in(S) == IF c \in S THEN 1 ELSE 0
           counting == Cardinality(Counting(a))
           trying == Cardinality(Trying(a))
<1>4. /\ wrong[a] <= count[a].n + counting + Lost
      /\ wrong[a] + trying <= (Limit - 1) + Cardinality(Clients) + Lost
      /\ counting \in Nat /\ trying \in Nat /\ counting + trying <= Cardinality(Clients)
      /\ ~(c \in Counting(a) \cup Trying(a)) => counting + trying < Cardinality(Clients)
      /\ count[a].n \in Nat /\ wrong[a] \in Nat
  BY <1>1, FewerThanClients DEF CountsFollow, TriesBounded, Keys
<1>5. /\ Cardinality(Counting(a)') = counting - in(Counting(a)) + in(Counting(a)')
      /\ Cardinality(Trying(a)') = trying - in(Trying(a)) + in(Trying(a)')
  BY <1>3, OneMoves
<1>6. /\ UNCHANGED faults => Lost' = Lost
      /\ faults' = faults + 1 => Lost' = Lost + Cardinality(Clients)
  BY LostGrows
<1>7. Cardinality(Clients) >= 1
  BY <1>1, FS_EmptySet
<1> HIDE DEF counting, trying
\* Of a step that leaves the history and the count of this account alone.
<1>8. ASSUME wrong'[a] = wrong[a], count'[a].n = count[a].n, UNCHANGED faults \/ faults' = faults + 1,
             c \in Counting(a) => c \in Counting(a)' \/ faults' = faults + 1,
             c \in Trying(a)' => c \in Trying(a) \/ faults' = faults + 1
      PROVE /\ wrong'[a] <= count'[a].n + Cardinality(Counting(a)') + Lost'
            /\ wrong'[a] + Cardinality(Trying(a)') <= (Limit - 1) + Cardinality(Clients) + Lost'
  BY <1>1, <1>4, <1>5, <1>6, <1>7, <1>8
<1>9. CASE ReadSubject(c)
  <2>1. PICK n \in {count[attempt[c].account].n, memory[attempt[c].account]} :
          /\ CountRead(attempt[c].account, n)
          /\ attempt' = [attempt EXCEPT ![c] =
                [stage |-> "ip", account |-> attempt[c].account, blocked |-> AtLimit(n)]]
    BY <1>9 DEF ReadSubject
  <2>2. attempt[c].stage = "subject" /\ UNCHANGED <<wrong, count>>
    BY <1>9 DEF ReadSubject, At
  <2>3. c \notin Counting(a) \cup Trying(a) /\ c \notin Counting(a)'
    BY <1>1, <2>1, <2>2 DEF Counting, Trying, At
  <2>4. CASE c \notin Trying(a)' \/ faults' = faults + 1
    BY <1>8, <2>1, <2>2, <2>3, <2>4 DEF CountRead, Faulty
  <2>5. CASE c \in Trying(a)' /\ faults' # faults + 1
    <3>1. attempt[c].account = a /\ ~AtLimit(n)
      BY <1>1, <2>1, <2>5 DEF Trying, At
    <3>2. n = count[a].n /\ UNCHANGED faults
      BY <2>1, <2>5, <3>1 DEF CountRead, Faulty
    <3>3. count[a].n <= Limit - 1
      BY <1>1, <1>4, <3>1, <3>2 DEF AtLimit
    <3> QED BY <1>1, <1>4, <1>5, <1>6, <2>2, <2>3, <2>5, <3>2, <3>3
  <2> QED BY <2>4, <2>5
<1>10. CASE ReadIp(c)
  <2>1. PICK n \in {count[Ip].n, memory[Ip]} :
          /\ CountRead(Ip, n)
          /\ IF attempt[c].blocked \/ AtLimit(n) THEN Answer(c) ELSE Go(c, "verify")
    BY <1>10 DEF ReadIp
  <2>2. attempt[c].stage = "ip" /\ UNCHANGED <<wrong, count>>
    BY <1>10 DEF ReadIp, At
  <2>3. /\ attempt'[c].stage \in {"idle", "verify"}
        /\ attempt'[c].stage = "verify" => ~attempt[c].blocked /\ attempt'[c].account = attempt[c].account
    BY <1>1, <2>1 DEF Answer, Go, NoAttempt
  <2>4. c \notin Counting(a) /\ (c \in Trying(a)' => c \in Trying(a))
    BY <2>2, <2>3 DEF Counting, Trying, At
  <2> QED BY <1>8, <2>1, <2>2, <2>4 DEF CountRead, Faulty
<1>11. CASE RecordAttempt(c)
  <2>1. /\ attempt[c].stage = "record" /\ UNCHANGED <<count, faults>>
        /\ wrong' = [wrong EXCEPT ![attempt[c].account] = @ + 1]
        /\ attempt'[c].stage = "incSubject" /\ attempt'[c].account = attempt[c].account
    BY <1>1, <1>11 DEF RecordAttempt, At, Go
  <2>2. CASE attempt[c].account = a
    <3>1. /\ wrong'[a] = wrong[a] + 1 /\ c \in Trying(a) /\ c \notin Counting(a)
          /\ c \in Counting(a)' /\ c \notin Trying(a)'
      BY <1>1, <2>1, <2>2 DEF Trying, Counting, At
    <3> QED BY <1>1, <1>4, <1>5, <1>6, <2>1, <3>1
  <2>3. CASE attempt[c].account # a
    <3>1. wrong'[a] = wrong[a] /\ c \notin Counting(a) /\ c \notin Trying(a)'
      BY <1>1, <2>1, <2>3 DEF Trying, Counting, At
    <3> QED BY <1>8, <2>1, <3>1
  <2> QED BY <2>2, <2>3
<1>12. CASE CountFailure(c) /\ At(c, "incSubject")
  <2>1. Increment(c, attempt[c].account, "ttlSubject", "incIp") /\ UNCHANGED wrong
    BY <1>12 DEF CountFailure, At
  <2>2. attempt'[c].stage \in {"ttlSubject", "incIp"}
    BY <1>1, <2>1 DEF Increment, Go
  <2>3. c \notin Counting(a)' /\ c \notin Trying(a)'
    BY <2>2 DEF Counting, Trying, At
  <2>4. \/ /\ count' = [count EXCEPT ![attempt[c].account].n = @ + 1]
           /\ UNCHANGED faults \/ faults' = faults + 1
        \/ faults' = faults + 1 /\ UNCHANGED count
    BY <2>1 DEF Increment, Faulty
  <2>5. attempt[c].account \in Keys
    BY <1>1, <1>12 DEF At, Keys
  <2>6. CASE attempt[c].account = a
    <3>1. \/ count'[a].n = count[a].n + 1 /\ (UNCHANGED faults \/ faults' = faults + 1)
          \/ count'[a].n = count[a].n /\ faults' = faults + 1
      BY <1>1, <2>4, <2>5, <2>6
    <3> QED BY <1>1, <1>4, <1>5, <1>6, <1>7, <2>1, <2>3, <2>4, <3>1
  <2>7. CASE attempt[c].account # a
    <3>1. count'[a] = count[a] /\ c \notin Counting(a)
      BY <1>1, <2>4, <2>7 DEF Keys, Counting
    <3> QED BY <1>8, <2>1, <2>3, <2>4, <3>1
  <2> QED BY <2>6, <2>7
<1>13. CASE (CountFailure(c) /\ ~At(c, "incSubject")) \/ CountAddress(c)
  <2>1. /\ attempt[c].stage \in {"ttlSubject", "incIp", "ttlIp"}
        /\ attempt'[c].stage \in {"incIp", "ttlIp", "idle"}
        /\ UNCHANGED wrong /\ (UNCHANGED faults \/ faults' = faults + 1)
    <3>1. CASE CountFailure(c)
      BY <1>1, <1>13, <3>1 DEF CountFailure, CountAddress, SetExpiry, Faulty, Go, At
    <3>2. CASE CountAddress(c)
      BY <1>1, <3>2, SMTT(30) DEF CountAddress, Increment, SetExpiry, Faulty, Go, At
    <3> QED BY <1>13, <3>1, <3>2
  <2>2. c \notin Counting(a) /\ c \notin Trying(a)'
    BY <2>1 DEF Counting, Trying, At
  <2>3. a \in Keys /\ a # Ip
    BY DEF Keys
  <2>4. count'[a].n = count[a].n
    <3>1. CASE CountFailure(c)
      BY <1>1, <1>13, <2>3, <3>1 DEF CountFailure, CountAddress, SetExpiry, At
    <3>2. CASE CountAddress(c)
      BY <1>1, <2>3, <3>2 DEF CountAddress, Increment, SetExpiry
    <3> QED BY <1>13, <3>1, <3>2
  <2> QED BY <1>8, <2>1, <2>2, <2>4
<1>14. CASE \/ VerifyRight(c) \/ LoginFails(c) \/ IssueElsewhere(c) \/ \E s \in Sessions : Issue(c, s)
            \/ \E b \in Accounts : StartLogin(c, b)
  <2>1. /\ attempt[c].stage \in {"verify", "record", "issue", "idle"}
        /\ attempt'[c].stage \in {"clear", "idle", "subject"}
        /\ UNCHANGED <<wrong, count, faults>>
    BY <1>1, <1>14 DEF VerifyRight, LoginFails, IssueElsewhere, Issue, StartLogin, Go, Answer, NoAttempt, At
  <2>2. c \notin Counting(a) /\ c \notin Trying(a)'
    BY <2>1 DEF Counting, Trying, At
  <2> QED BY <1>8, <2>1, <2>2
<1>15. CASE VerifyWrong(c)
  <2>1. /\ attempt[c].stage = "verify" /\ attempt'[c] = [attempt[c] EXCEPT !.stage = "record"]
        /\ UNCHANGED <<wrong, count, faults>>
    BY <1>1, <1>15 DEF VerifyWrong, Go, At
  <2>2. c \notin Counting(a) /\ (c \in Trying(a)' => c \in Trying(a))
    BY <1>1, <2>1 DEF Counting, Trying, At
  <2> QED BY <1>8, <2>1, <2>2
<1> QED BY <1>9, <1>10, <1>11, <1>12, <1>13, <1>14, <1>15

\* The ends of windows, the success that clears, and the death of the process:
\* a history begins anew together with its count.
LEMMA DropsGuess ==
    ASSUME GuessInductive,
           \/ \E k \in Keys : Expire(k) \/ ExpireMemory(k)
           \/ \E c \in Clients : ClearFailures(c)
           \/ Restart
    PROVE CountsFollow' /\ TriesBounded'
<1> USE AuthConstants DEF GuessInductive
<1> SUFFICES ASSUME NEW a \in Accounts
             PROVE /\ wrong'[a] <= count'[a].n + Cardinality(Counting(a)') + Lost'
                   /\ wrong'[a] + Cardinality(Trying(a)') <= (Limit - 1) + Cardinality(Clients) + Lost'
  BY DEF CountsFollow, TriesBounded
<1>1. /\ count \in [Keys -> [n: Nat, ttl: BOOLEAN]] /\ wrong \in [Accounts -> Nat]
      /\ attempt \in [Clients -> [stage: Stages, account: Accounts \cup {None}, blocked: BOOLEAN]]
      /\ Cardinality(Clients) \in Nat /\ Lost \in Nat /\ Limit \in Nat /\ a \in Keys
  BY LostGrows DEF AuthInductive, TypeOK, ServiceTypeOK, Keys
<1>2. /\ wrong[a] <= count[a].n + Cardinality(Counting(a)) + Lost
      /\ wrong[a] + Cardinality(Trying(a)) <= (Limit - 1) + Cardinality(Clients) + Lost
      /\ Cardinality(Counting(a)) \in Nat /\ Cardinality(Trying(a)) \in Nat
      /\ Cardinality(Counting(a)) + Cardinality(Trying(a)) <= Cardinality(Clients)
      /\ count[a].n \in Nat /\ wrong[a] \in Nat
  BY <1>1, FewerThanClients DEF CountsFollow, TriesBounded
<1>3. /\ UNCHANGED faults => Lost' = Lost
      /\ faults' = faults + 1 => Lost' = Lost + Cardinality(Clients)
  BY LostGrows
<1>4. \A keys \in SUBSET Keys :
        /\ a \in keys => Forgiven(keys)[a] = 0 /\ Dropped(keys)[a].n = 0
        /\ a \notin keys => Forgiven(keys)[a] = wrong[a] /\ Dropped(keys)[a] = count[a]
  BY <1>1 DEF Forgiven, Dropped
\* The clients of the two sets are the same, and the history does not outgrow the count.
<1>5. ASSUME Counting(a)' = Counting(a), Trying(a)' = Trying(a),
             UNCHANGED faults \/ faults' = faults + 1,
             \/ wrong'[a] = wrong[a] /\ count'[a].n = count[a].n
             \/ wrong'[a] = 0 /\ count'[a].n = 0
      PROVE /\ wrong'[a] <= count'[a].n + Cardinality(Counting(a)') + Lost'
            /\ wrong'[a] + Cardinality(Trying(a)') <= (Limit - 1) + Cardinality(Clients) + Lost'
  BY <1>1, <1>2, <1>3, <1>5
<1>6. CASE \E k \in Keys : Expire(k)
  <2>1. PICK k \in Keys : Expire(k)
    BY <1>6
  <2>2. Counting(a)' = Counting(a) /\ Trying(a)' = Trying(a)
    BY <2>1 DEF Expire, Counting, Trying, At
  <2>3. count' = Dropped({k}) /\ wrong' = Forgiven({k}) /\ {k} \in SUBSET Keys /\ UNCHANGED faults
    BY <2>1 DEF Expire
  <2>4. \/ wrong'[a] = wrong[a] /\ count'[a].n = count[a].n
        \/ wrong'[a] = 0 /\ count'[a].n = 0
    BY <1>4, <2>3
  <2> QED BY <1>5, <2>2, <2>3, <2>4
<1>7. CASE \E k \in Keys : ExpireMemory(k)
  <2>1. UNCHANGED <<count, wrong, faults, attempt>>
    BY <1>7 DEF ExpireMemory
  <2>2. Counting(a)' = Counting(a) /\ Trying(a)' = Trying(a)
    BY <2>1 DEF Counting, Trying, At
  <2> QED BY <1>5, <2>1, <2>2
<1>8. CASE \E c \in Clients : ClearFailures(c)
  <2>1. PICK c \in Clients : ClearFailures(c)
    BY <1>8
  <2> DEFINE keys == {attempt[c].account, Ip}
  <2>2. /\ attempt[c].stage = "clear" /\ Go(c, "issue")
        /\ \/ count' = Dropped(keys) /\ wrong' = Forgiven(keys) /\ UNCHANGED faults
           \/ faults' = faults + 1 /\ UNCHANGED <<count, wrong>>
    BY <2>1 DEF ClearFailures, At, Faulty
  <2>3. keys \in SUBSET Keys
    BY <2>2 DEF AuthInductive, AttemptsHaveAccounts, Keys
  <2> HIDE DEF keys
  <2>4. attempt'[c].stage = "issue" /\ \A d \in Clients \ {c} : attempt'[d] = attempt[d]
    BY <1>1, <2>2 DEF Go
  <2>5. Counting(a)' = Counting(a) /\ Trying(a)' = Trying(a)
    BY <2>2, <2>4 DEF Counting, Trying, At
  <2>6. \/ wrong'[a] = wrong[a] /\ count'[a].n = count[a].n
        \/ wrong'[a] = 0 /\ count'[a].n = 0
    BY <1>4, <2>2, <2>3
  <2> QED BY <1>5, <2>2, <2>5, <2>6
<1>9. CASE Restart
  <2>1. /\ faults' = faults + 1 /\ UNCHANGED <<count, wrong>>
        /\ attempt' = [c \in Clients |-> NoAttempt]
    BY <1>9 DEF Restart, Faulty
  <2>2. Counting(a)' = {} /\ Trying(a)' = {}
    BY <2>1 DEF Counting, Trying, At, NoAttempt
  <2> QED BY <1>1, <1>2, <1>3, <2>1, <2>2, FS_EmptySet
<1> QED BY <1>6, <1>7, <1>8, <1>9

LEMMA GuessStep == GuessInductive /\ [Next]_vars => GuessInductive'
<1> SUFFICES ASSUME GuessInductive, [Next]_vars PROVE CountsFollow' /\ TriesBounded'
  BY AuthStep DEF GuessInductive
<1>1. ASSUME UNCHANGED <<count, wrong, faults, attempt>> PROVE CountsFollow' /\ TriesBounded'
  BY <1>1 DEF GuessInductive, CountsFollow, TriesBounded, Counting, Trying, At, Lost
<1>2. CASE UNCHANGED vars
  BY <1>1, <1>2 DEF vars, serviceVars
<1>3. CASE \/ StartRefresh \/ ServeRefresh \/ RefreshAnswered \/ RefreshFailed \/ Logout
           \/ \E s \in Sessions : ServeLogout(s)
  BY <1>1, <1>3 DEF StartRefresh, ServeRefresh, RefreshAnswered, RefreshFailed, Logout, ServeLogout,
                    Revoke, serviceVars
<1>4. CASE LimiterNext
  BY <1>4, LoginGuesses, DropsGuess DEF LimiterNext
<1>5. CASE \/ \E c \in Clients, a \in Accounts : Submit(c, a)
           \/ \E c \in Clients : OtherLoggedIn(c)
           \/ \E s \in Sessions : LoggedIn(s)
  BY <1>5, LoginGuesses, StoreConstants DEF Submit, OtherLoggedIn, LoggedIn
<1> QED BY <1>2, <1>3, <1>4, <1>5 DEF Next

\* Between two ends of its counter no account's recorded failures outrun the limit
\* by more than the logins under way, once more after every fault (auth.py:117).
THEOREM RecordedFailuresAreBounded == Spec => []RecordedFailuresBounded
<1>1. Init => GuessInductive
  BY AuthInit, GuessInit DEF GuessInductive
<1>2. GuessInductive => RecordedFailuresBounded
  <2> SUFFICES ASSUME GuessInductive, NEW a \in Accounts
               PROVE wrong[a] <= (Limit - 1) + Cardinality(Clients) * (1 + faults)
    BY DEF RecordedFailuresBounded
  <2>1. Cardinality(Clients) \in Nat /\ faults \in Nat /\ wrong[a] \in Nat
    BY LostGrows DEF GuessInductive, AuthInductive, TypeOK, ServiceTypeOK
  <2>2. \A m, n \in Nat : m * (1 + n) = m + m * n
    OBVIOUS
  <2>3. wrong[a] + Cardinality(Trying(a)) <= (Limit - 1) + Cardinality(Clients) + Lost
        /\ Cardinality(Trying(a)) \in Nat /\ Lost \in Nat
    BY FewerThanClients, LostGrows DEF GuessInductive, TriesBounded
  <2> QED BY <2>1, <2>2, <2>3, AuthConstants DEF Lost
<1> QED BY <1>1, <1>2, GuessStep, PTL DEF Spec
=============================================================================
