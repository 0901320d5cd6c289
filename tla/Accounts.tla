------------------------------ MODULE Accounts ------------------------------
(***************************************************************************)
(* The rows of users and the requests that change them.  A request loads   *)
(* its user rows in its first await and decides on them; SQLAlchemy writes *)
(* the columns that differ from what was loaded, and the commit publishes  *)
(* them.  Between the two, other requests commit.                          *)
(***************************************************************************)
EXTENDS Naturals, FiniteSets

CONSTANTS
    Users,
    Requests,   \* each is made once; what it creates has its name
    Old,        \* an avatar file that exists from the start
    None

Files == Requests \cup {Old}
SystemRoles == {"admin", "user"}
Account == [role: SystemRoles, active: BOOLEAN, mustChange: BOOLEAN,
            chosenBy: {"self", "admin"}, avatar: Files \cup {None}]

ASSUME AccountConstants ==
    /\ None \notin Users \cup Files \cup Account
    /\ Old \notin Requests

VARIABLES
    users,      \* the table: None, or the account
    files,      \* uploads/avatars
    req,        \* the requests
    excused,    \* history: users whose last reset raced another change of the row
    torn,       \* history: users whose avatar requests overlapped, or failed half-way
    usurped     \* history: a request committed after its administrator had lost the role

accountVars == <<users, files, req, excused, torn, usurped>>

Idle == [phase |-> "idle"]
Over == [phase |-> "over"]
Begun(op, actor, target, saw, set) ==
    [phase |-> "begun", op |-> op, actor |-> actor, target |-> target,
     saw |-> saw, set |-> set]
Running(r) == req[r].phase \in {"begun", "filed"}

Member(u) == users[u] # None /\ users[u].active
IsAdmin(u) == Member(u) /\ users[u].role = "admin"

AvatarOf(u) == IF users[u] = None THEN None ELSE users[u].avatar

\* The fields an update's body may set; one per request (bound).
Bodies == [{"role"} -> SystemRoles] \cup [{"active"} -> BOOLEAN] \cup [{"mustChange"} -> BOOLEAN]

\* Mutation: the new password need not be changed.
OnlyPassword == [chosenBy |-> "admin"]

ForcedPassword == [chosenBy |-> "admin", mustChange |-> TRUE]
OwnPassword == [chosenBy |-> "self", mustChange |-> FALSE]

\* The requests under way, by what they loaded and what they set.
Asks(phases, ops, targets, saw, set) ==
    [phase: phases, op: ops, actor: Users, target: targets, saw: saw, set: set]
AccountRequest ==
    UNION {Asks({"begun"}, {"update"}, Users, Account, Bodies),
           Asks({"begun"}, {"disable"}, Users, Account, {[active |-> FALSE]}),
           Asks({"begun"}, {"reset"}, Users, Account, {ForcedPassword}),
           Asks({"begun"}, {"change"}, Users, Account, {OwnPassword}),
           Asks({"begun"}, {"create"}, Users, {None}, [role: SystemRoles]),
           Asks({"begun", "filed"}, {"avatar", "noAvatar"}, Users, Account,
                [avatar: Requests \cup {None}])}

AccountTypeOK ==
    /\ users \in [Users -> Account \cup {None}]
    /\ files \in SUBSET Files
    /\ excused \in SUBSET Users
    /\ torn \in SUBSET Users
    /\ usurped \in BOOLEAN

NewAccount(role) == [role |-> role, active |-> TRUE, mustChange |-> FALSE,
                     chosenBy |-> "self", avatar |-> None]

-----------------------------------------------------------------------------
Begin(r, request) ==
    /\ req[r] = Idle
    /\ req' = [req EXCEPT ![r] = request]
    /\ UNCHANGED <<users, files, excused, torn, usurped>>

\* The loaded row is not the row any more.
Stale(r) == req[r].saw # users[req[r].target]

\* The columns the flush writes: those whose value differs from the loaded one.
\* (A new password hash always differs.)
Written(r) == {c \in DOMAIN req[r].set : c = "chosenBy" \/ req[r].set[c] # req[r].saw[c]}

Flushed(r) ==
    [users EXCEPT ![req[r].target] =
        [c \in DOMAIN @ |-> IF c \in Written(r) THEN req[r].set[c] ELSE @[c]]]

Finish(r) ==
    /\ req' = [req EXCEPT ![r] = Over]
    /\ usurped' = (usurped \/ (req[r].op \in {"update", "disable"} /\ ~IsAdmin(req[r].actor)))

\* The request fails before its commit, or its client's worker dies: rollback.
Fail(r) ==
    /\ Running(r)
    /\ req' = [req EXCEPT ![r] = Over]
    /\ torn' = IF req[r].phase = "filed" THEN torn \cup {req[r].target} ELSE torn
    /\ UNCHANGED <<users, files, excused, usurped>>

-----------------------------------------------------------------------------
(***************************************************************************)
(* The administrator's requests.                                           *)
(***************************************************************************)
\* Mutation: the guard looks at the role only.
KeepsRoleOnly(a, u, set) == a = u /\ "role" \in DOMAIN set => set["role"] = "admin"

\* An administrator neither demotes nor deactivates itself.
SparesSelf(a, u, set) ==
    a = u => /\ "role" \in DOMAIN set => set["role"] = "admin"
             /\ "active" \in DOMAIN set => set["active"]

BeginUpdateUser(r, a, u, set) ==
    /\ IsAdmin(a) /\ users[u] # None
    /\ SparesSelf(a, u, set)
    /\ Begin(r, Begun("update", a, u, users[u], set))

BeginDisableUser(r, a, u) ==
    /\ IsAdmin(a) /\ users[u] # None /\ a # u
    /\ Begin(r, Begun("disable", a, u, users[u], [active |-> FALSE]))

BeginResetPassword(r, a, u) ==
    /\ IsAdmin(a) /\ users[u] # None
    /\ Begin(r, Begun("reset", a, u, users[u], ForcedPassword))

\* The user's own; whether the old password is right is left open.
BeginChangePassword(r, u) ==
    /\ Member(u)
    /\ Begin(r, Begun("change", u, u, users[u], OwnPassword))

\* What may be said of a reset afterwards: it raced, or an administrator took
\* the obligation back.
Excuses(r) ==
    LET u == req[r].target IN
    IF req[r].op = "reset" THEN IF Stale(r) THEN excused \cup {u} ELSE excused \ {u}
    ELSE IF req[r].op = "update" /\ req[r].set = [mustChange |-> FALSE] THEN excused \cup {u}
    ELSE excused

CommitUser(r) ==
    /\ req[r].phase = "begun" /\ req[r].op \in {"update", "disable", "reset", "change"}
    /\ users' = Flushed(r)
    /\ excused' = Excuses(r)
    /\ Finish(r)
    /\ UNCHANGED <<files, torn>>

BeginCreateUser(r, a, u, role) ==
    /\ IsAdmin(a) /\ users[u] = None
    /\ Begin(r, Begun("create", a, u, None, [role |-> role]))

\* users.username is unique: the second of two commits is refused.
CommitCreateUser(r) ==
    /\ req[r].phase = "begun" /\ req[r].op = "create"
    /\ users[req[r].target] = None
    /\ users' = [users EXCEPT ![req[r].target] = NewAccount(req[r].set.role)]
    /\ Finish(r)
    /\ UNCHANGED <<files, excused, torn>>

-----------------------------------------------------------------------------
(***************************************************************************)
(* Avatars: the file moves first, the row follows.                         *)
(***************************************************************************)
BeginAvatar(r, u, op) ==
    /\ Member(u)
    /\ Begin(r, Begun(op, u, u, users[u],
                      [avatar |-> IF op = "avatar" THEN r ELSE None]))

\* Mutation: the old file is left where it is.
KeepsOldFile(r) == {}

OldFile(r) == {req[r].saw.avatar}

NewFile(r) == IF req[r].op = "avatar" THEN {r} ELSE {}

SwapFiles(r) ==
    /\ req[r].phase = "begun" /\ req[r].op \in {"avatar", "noAvatar"}
    /\ files' = (files \ OldFile(r)) \cup NewFile(r)
    /\ req' = [req EXCEPT ![r].phase = "filed"]
    /\ UNCHANGED <<users, excused, torn, usurped>>

CommitAvatar(r) ==
    LET u == req[r].target IN
    /\ req[r].phase = "filed"
    /\ users' = Flushed(r)
    /\ torn' = IF users[u].avatar # req[r].saw.avatar THEN torn \cup {u} ELSE torn
    /\ Finish(r)
    /\ UNCHANGED <<files, excused>>

-----------------------------------------------------------------------------
AccountNext ==
    \E r \in Requests :
        \/ \E a \in Users, u \in Users :
            \/ \E set \in Bodies : BeginUpdateUser(r, a, u, set)
            \/ BeginDisableUser(r, a, u)
            \/ BeginResetPassword(r, a, u)
            \/ \E role \in SystemRoles : BeginCreateUser(r, a, u, role)
        \/ \E u \in Users :
            \/ BeginChangePassword(r, u)
            \/ \E op \in {"avatar", "noAvatar"} : BeginAvatar(r, u, op)
        \/ CommitUser(r)
        \/ CommitCreateUser(r)
        \/ SwapFiles(r)
        \/ CommitAvatar(r)

-----------------------------------------------------------------------------
\* Somebody can administer the system.  The guards look at one request's own
\* row (admin.py:152, 228), so this holds unless a request committed for an
\* administrator who was meanwhile demoted or deactivated by another.
SomeAdmin == (\E u \in Users : IsAdmin(u)) \/ usurped

\* A password an administrator chose by a reset has to be changed (admin.py:204),
\* unless the obligation was taken back or the reset overlapped another change
\* of the row: a flag loaded as TRUE is not written again.
ForcedChange ==
    \A u \in Users : users[u] # None /\ users[u].chosenBy = "admin" =>
        users[u].mustChange \/ u \in excused

\* The avatar a row names is on disk and no other file of the user is kept,
\* between two avatar requests (user.py:115 unlinks before the commit), unless
\* two of them overlapped or one failed after it had moved the files.
SwapUnderWay(u) == \E r \in Requests : req[r].phase = "filed" /\ req[r].target = u
AvatarsMatchFiles ==
    \/ torn # {}
    \/ \E u \in Users : SwapUnderWay(u)
    \/ files = {AvatarOf(u) : u \in Users} \ {None}
=============================================================================
