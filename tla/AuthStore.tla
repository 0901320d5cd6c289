----------------------------- MODULE AuthStore ------------------------------
(***************************************************************************)
(* A browser's auth store and axios interceptor, against the service: one  *)
(* shared refresh at a time, a logout that clears first and tells the      *)
(* server later, and answers that arrive whenever they do.  The other      *)
(* clients behind the same address only sign in.                           *)
(***************************************************************************)
EXTENDS AuthService

CONSTANT Browser    \* the client whose store is followed

ASSUME StoreConstants == Browser \in Clients

VARIABLES
    tokens,    \* the session whose tokens the browser holds
    refresh,   \* the shared refresh promise: its session and how far it is
    leaving,   \* logout requests on their way
    current,   \* history: the session of the last login, until the user leaves it
    raced      \* history: a refresh was under way when the user logged out

storeVars == <<tokens, refresh, leaving, current, raced>>
vars == <<serviceVars, storeVars>>

NoRefresh == [state |-> "none", session |-> None]
RefreshStates == {"none", "sent", "granted"}

TypeOK ==
    /\ ServiceTypeOK
    /\ tokens \in Sessions \cup {None}
    /\ refresh \in [state: RefreshStates, session: Sessions \cup {None}]
    /\ leaving \in SUBSET Sessions
    /\ current \in Sessions \cup {None}
    /\ raced \in BOOLEAN

Init ==
    /\ ServiceInit
    /\ tokens = None
    /\ refresh = NoRefresh
    /\ leaving = {}
    /\ current = None
    /\ raced = FALSE

\* The router shows the login page to a user who is not logged in.  (Bound: the
\* browser signs in no more often than there are login records to issue.)
Submit(c, a) ==
    /\ c = Browser => current = None /\ \E s \in Sessions : record[s] = "none"
    /\ StartLogin(c, a)
    /\ UNCHANGED storeVars

\* login: applySession of the answer.
LoggedIn(s) ==
    /\ Issue(Browser, s)
    /\ tokens' = s
    /\ current' = s
    /\ raced' = (raced /\ refresh # NoRefresh)
    /\ UNCHANGED <<refresh, leaving>>

OtherLoggedIn(c) ==
    /\ c # Browser /\ IssueElsewhere(c)
    /\ UNCHANGED storeVars

\* An access token expires; the next call is answered 401 and refreshes, or
\* joins the refresh that is under way.
StartRefresh ==
    /\ tokens # None
    /\ refresh = NoRefresh
    /\ refresh' = [state |-> "sent", session |-> tokens]
    /\ UNCHANGED <<serviceVars, tokens, leaving, current, raced>>

\* POST /auth/refresh is served.
ServeRefresh ==
    /\ refresh.state = "sent"
    /\ RefreshAllowed(refresh.session)
    /\ refresh' = [refresh EXCEPT !.state = "granted"]
    /\ UNCHANGED <<serviceVars, tokens, leaving, current, raced>>

\* then: applySession; finally: refreshing = null.
RefreshAnswered ==
    /\ refresh.state = "granted"
    /\ tokens' = refresh.session
    /\ refresh' = NoRefresh
    /\ UNCHANGED <<serviceVars, leaving, current, raced>>

\* catch: clearSession, the refresh was refused, timed out or its answer lost.
RefreshFailed ==
    /\ refresh # NoRefresh
    /\ tokens' = None
    /\ current' = None
    /\ refresh' = NoRefresh
    /\ UNCHANGED <<serviceVars, leaving, raced>>

\* Mutation: the tokens are cleared when the server has answered.
KeptUntilAnswered == tokens

\* clearSession comes before the request.
AfterLogout == None

Logout ==
    /\ tokens # None
    /\ leaving' = leaving \cup {tokens}
    /\ tokens' = AfterLogout
    /\ current' = None
    /\ raced' = (refresh # NoRefresh)
    /\ UNCHANGED <<serviceVars, refresh>>

\* POST /auth/logout revokes the record; a request that is lost (the store
\* ignores it) stays here for ever.
ServeLogout(s) ==
    /\ s \in leaving
    /\ leaving' = leaving \ {s}
    /\ Revoke(s)
    /\ UNCHANGED <<tokens, refresh, current, raced>>

-----------------------------------------------------------------------------
Next ==
    \/ \E c \in Clients :
        \/ \E a \in Accounts : Submit(c, a)
        \/ OtherLoggedIn(c)
    \/ \E s \in Sessions : LoggedIn(s) \/ ServeLogout(s)
    \/ StartRefresh \/ ServeRefresh \/ RefreshAnswered \/ RefreshFailed \/ Logout
    \/ LimiterNext /\ UNCHANGED storeVars

Spec == Init /\ [][Next]_vars

\* Access tokens expire while the page is used; answers arrive or time out.
Fairness == WF_vars(StartRefresh) /\ WF_vars(RefreshAnswered \/ RefreshFailed)

FairSpec == Spec /\ Fairness

-----------------------------------------------------------------------------
\* The browser holds the tokens of the login the user made last and has not
\* left, unless a refresh was under way when the user logged out: its answer
\* installs the old session again (auth.ts:64), or takes the next one away.
SessionIsLastLogin == tokens \in {None, current} \/ raced

Revived == tokens # None /\ record[tokens] = "revoked"

\* Such a revived session does not last once its logout reached the server: the
\* next refresh is refused and clears the store (auth.py:173, auth.ts:68).
RevivedSessionDies == Revived ~> ~Revived
=============================================================================
