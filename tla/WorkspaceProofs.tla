-------------------------- MODULE WorkspaceProofs --------------------------
(***************************************************************************)
(* Proofs about accounts and knowledge bases, for any number of users and  *)
(* requests.  The invariant says of every request under way what its first *)
(* look at the tables established and what the others cannot undo; a       *)
(* commit then needs no more than that.                                    *)
(***************************************************************************)
EXTENDS Workspace, TLAPS

\* What a request under way may rely on.
LooksAtAccounts(q) ==
    /\ q.op \in {"update", "disable", "reset", "change", "avatar", "noAvatar"} =>
         users[q.target] # None
    /\ q.op = "update" => SparesSelf(q.actor, q.target, q.set)
    /\ q.op = "disable" => q.actor # q.target

LooksAtKbs(q) ==
    /\ q.op = "permissions" => HasOwner(q.set)
    /\ q.op \in {"permissions", "upload", "deleteKb"} /\ q.target \in Requests =>
         req[q.target] = Over
    /\ q.op = "deleteKb" => DocsOf(q.target) \subseteq q.saw \cup orphaned
    /\ q.op = "upload" =>
         /\ q.set.kb = q.target
         /\ \A d \in q.saw : docs[d] = None \/ docs[d].name # q.set.name
         /\ \A d \in q.saw \cap Requests : req[d] = Over

AccountsLook == \A r \in Requests : Running(r) => LooksAtAccounts(req[r])
KbsLook == \A r \in Requests : Running(r) => LooksAtKbs(req[r])

\* What a request makes is not there before the request is over.
MadeByTheirRequest ==
    \A r \in Requests : req[r] # Over =>
        r \notin kbs /\ perms[r] = Nobody /\ docs[r] = None

WorkspaceInductive ==
    /\ TypeOK
    /\ AccountsLook /\ SomeAdmin /\ ForcedChange
    /\ KbsLook /\ MadeByTheirRequest
    /\ PermissionsAsAsked /\ DocumentsBelong /\ UniqueNames
-----------------------------------------------------------------------------
Columns == {"role", "active", "mustChange", "chosenBy", "avatar"}

\* What a request sets is a part of a row.
PartOfRow(set) ==
    /\ DOMAIN set \subseteq Columns
    /\ "role" \in DOMAIN set => set["role"] \in SystemRoles
    /\ "active" \in DOMAIN set => set["active"] \in BOOLEAN
    /\ "mustChange" \in DOMAIN set => set["mustChange"] \in BOOLEAN
    /\ "chosenBy" \in DOMAIN set => set["chosenBy"] \in {"self", "admin"}
    /\ "avatar" \in DOMAIN set => set["avatar"] \in Files \cup {None}

Overwritten(row, set, cols) == [c \in DOMAIN row |-> IF c \in cols THEN set[c] ELSE row[c]]

LEMMA RowStaysARow ==
    ASSUME NEW row \in Account, NEW set, PartOfRow(set), NEW cols \in SUBSET DOMAIN set
    PROVE /\ Overwritten(row, set, cols) \in Account
          /\ \A c \in Columns :
               Overwritten(row, set, cols)[c] = IF c \in cols THEN set[c] ELSE row[c]
<1> DEFINE new == Overwritten(row, set, cols)
<1>1. /\ DOMAIN row = Columns /\ row["role"] \in SystemRoles /\ row["active"] \in BOOLEAN
      /\ row["mustChange"] \in BOOLEAN /\ row["chosenBy"] \in {"self", "admin"}
      /\ row["avatar"] \in Files \cup {None}
  BY DEF Account, Columns
<1>2. \A c \in Columns : new[c] = IF c \in cols THEN set[c] ELSE row[c]
  BY <1>1 DEF Overwritten
<1>3. /\ new["role"] \in SystemRoles /\ new["active"] \in BOOLEAN
      /\ new["mustChange"] \in BOOLEAN /\ new["chosenBy"] \in {"self", "admin"}
      /\ new["avatar"] \in Files \cup {None}
  BY <1>1, <1>2 DEF PartOfRow, Columns
<1>4. new = [role |-> new["role"], active |-> new["active"], mustChange |-> new["mustChange"],
             chosenBy |-> new["chosenBy"], avatar |-> new["avatar"]]
  BY <1>1 DEF Columns, Overwritten
<1> HIDE DEF new
<1>5. new \in Account
  BY <1>3, <1>4 DEF Account
<1> QED BY <1>2, <1>5 DEF new

\* The kinds of requests, told apart by op.
LEMMA KindsOfRequests ==
    ASSUME TypeOK, NEW r \in Requests, Running(r)
    PROVE LET q == req[r] IN
      /\ q \in AccountRequest \cup KbRequest
      /\ q.op \in {"update", "disable", "reset", "change"} =>
            /\ q.phase = "begun" /\ q.actor \in Users /\ q.target \in Users
            /\ q.saw \in Account
      /\ q.op = "update" => q.set \in Bodies
      /\ q.op = "disable" => q.set = [active |-> FALSE]
      /\ q.op = "reset" => q.set = ForcedPassword
      /\ q.op = "change" => q.set = OwnPassword
      /\ q.op = "create" => q.actor \in Users /\ q.target \in Users /\ q.set \in [role: SystemRoles]
      /\ q.op \in {"avatar", "noAvatar"} =>
            q.target \in Users /\ q.saw \in Account /\ q.set \in [avatar: Requests \cup {None}]
      /\ q.phase = "filed" => q.op \in {"avatar", "noAvatar"}
<1>1. req[r] \in AccountRequest \cup KbRequest
  BY DEF TypeOK, Running, Idle, Over
<1>2. CASE req[r] \in AccountRequest
  <2> DEFINE q == req[r]
  <2>1. CASE q \in Asks({"begun"}, {"update"}, Users, Account, Bodies)
    BY <1>2, <2>1 DEF Asks
  <2>2. CASE q \in Asks({"begun"}, {"disable"}, Users, Account, {[active |-> FALSE]})
    BY <1>2, <2>2 DEF Asks
  <2>3. CASE q \in Asks({"begun"}, {"reset"}, Users, Account, {ForcedPassword})
    BY <1>2, <2>3 DEF Asks
  <2>4. CASE q \in Asks({"begun"}, {"change"}, Users, Account, {OwnPassword})
    BY <1>2, <2>4 DEF Asks
  <2>5. CASE q \in Asks({"begun"}, {"create"}, Users, {None}, [role: SystemRoles])
    BY <1>2, <2>5 DEF Asks
  <2>6. CASE q \in Asks({"begun", "filed"}, {"avatar", "noAvatar"}, Users, Account,
                        [avatar: Requests \cup {None}])
    BY <1>2, <2>6 DEF Asks
  <2> QED BY <1>2, <2>1, <2>2, <2>3, <2>4, <2>5, <2>6 DEF AccountRequest
<1>3. CASE req[r] \in KbRequest
  BY <1>3 DEF KbRequest, Asks
<1> QED BY <1>1, <1>2, <1>3

\* The same for the requests about knowledge bases.
LEMMA KindsOfKbRequests ==
    ASSUME TypeOK, NEW r \in Requests, Running(r)
    PROVE LET q == req[r] IN
      /\ q.op = "createKb" => q.actor \in Users
      /\ q.op = "permissions" =>
            /\ q.target \in KBs /\ q.saw \in [Users -> Permission \cup {None}] /\ q.set \in Lists
      /\ q.op = "upload" => q.target \in KBs /\ q.saw \in SUBSET Docs /\ q.set \in Document
      /\ q.op = "deleteDoc" => q.target \in Docs
      /\ q.op = "deleteKb" => q.target \in KBs /\ q.saw \in SUBSET Docs
<1> DEFINE q == req[r]
<1>1. q \in AccountRequest \cup KbRequest
  BY DEF TypeOK, Running, Idle, Over
<1>2. CASE q \in AccountRequest
  BY <1>2 DEF AccountRequest, Asks
<1>3. CASE q \in KbRequest
  <2>1. CASE q \in Asks({"begun"}, {"createKb"}, Requests, {None}, {None})
    BY <2>1 DEF Asks
  <2>2. CASE q \in Asks({"begun"}, {"permissions"}, KBs, [Users -> Permission \cup {None}], Lists)
    BY <2>2 DEF Asks
  <2>3. CASE q \in Asks({"begun"}, {"upload"}, KBs, SUBSET Docs, Document)
    BY <2>3 DEF Asks
  <2>4. CASE q \in Asks({"begun"}, {"deleteDoc"}, Docs, {None}, {None})
    BY <2>4 DEF Asks
  <2>5. CASE q \in Asks({"begun"}, {"deleteKb"}, KBs, SUBSET Docs, {None})
    BY <2>5 DEF Asks
  <2> QED BY <1>3, <2>1, <2>2, <2>3, <2>4, <2>5 DEF KbRequest
<1> QED BY <1>1, <1>2, <1>3

\* How a step leaves the other requests alone.
OneRequest(r, new) ==
    /\ req' = [req EXCEPT ![r] = new]
    /\ req[r] # Over

LEMMA OtherRequests ==
    ASSUME TypeOK, NEW r \in Requests, NEW new, OneRequest(r, new),
           new \in {Idle, Over} \cup AccountRequest \cup KbRequest
    PROVE /\ req' \in [Requests -> {Idle, Over} \cup AccountRequest \cup KbRequest]
          /\ req'[r] = new
          /\ \A p \in Requests : p # r => req'[p] = req[p]
          /\ \A p \in Requests : req[p] = Over => req'[p] = Over
BY DEF OneRequest, TypeOK

-----------------------------------------------------------------------------
LEMMA WorkspaceInit == Init => WorkspaceInductive
<1> SUFFICES ASSUME Init PROVE WorkspaceInductive
  OBVIOUS
<1> USE AccountConstants, KbConstants
<1>2. /\ users \in [Users -> {None} \cup StartAccount] /\ \E u \in Users : IsAdmin(u)
      /\ files = {AvatarOf(u) : u \in Users} \ {None}
      /\ req = [r \in Requests |-> Idle]
      /\ excused = {} /\ torn = {} /\ usurped = FALSE
  BY DEF Init
<1>3. /\ kbs = {KB0} /\ asked \in [KBs -> Lists] /\ HasOwner(asked[KB0])
      /\ \A k \in Requests : asked[k] = Nobody
      /\ perms = [k \in KBs |-> [u \in Users |->
                    IF asked[k][u] = None THEN None ELSE [role |-> asked[k][u], id |-> Old]]]
      /\ docs \in [Docs -> [kb: {KB0}, name: Names] \cup {None}]
      /\ \A d \in Requests : docs[d] = None
      /\ merged = {} /\ blind = {} /\ orphaned = {}
  BY DEF Init
<1>4. \A u \in Users : users[u] = None \/ (users[u] \in Account /\ users[u].chosenBy = "self")
  BY <1>2 DEF StartAccount
<1>5. AccountTypeOK
  <2>1. users \in [Users -> Account \cup {None}]
    BY <1>2 DEF StartAccount
  <2>2. files \in SUBSET Files
    BY <1>2, <1>4 DEF AvatarOf, Account
  <2> QED BY <1>2, <2>1, <2>2 DEF AccountTypeOK
<1>6. \A k \in KBs, u \in Users :
        /\ asked[k][u] \in KbRoles \cup {None}
        /\ perms[k][u] = IF asked[k][u] = None THEN None ELSE [role |-> asked[k][u], id |-> Old]
        /\ perms[k][u] \in Permission \cup {None}
  BY <1>3 DEF Lists, Permission
<1>7. KbTypeOK
  <2>1. perms \in [KBs -> [Users -> Permission \cup {None}]]
    BY <1>3, <1>6
  <2>2. docs \in [Docs -> Document \cup {None}]
    BY <1>3 DEF Document, KBs
  <2> QED BY <1>3, <2>1, <2>2 DEF KbTypeOK, KBs
<1>8. req \in [Requests -> {Idle, Over} \cup AccountRequest \cup KbRequest]
  BY <1>2
<1>9. AccountsLook /\ KbsLook
  BY <1>2 DEF AccountsLook, KbsLook, Running, Idle
<1>10. MadeByTheirRequest
  <2>1. \A k \in Requests : perms[k] = Nobody
    BY <1>3 DEF Nobody, KBs
  <2> QED BY <1>3, <2>1 DEF MadeByTheirRequest
<1>11. SomeAdmin /\ ForcedChange
  BY <1>2, <1>4 DEF SomeAdmin, ForcedChange
<1>12. PermissionsAsAsked
  <2>1. \A u \in Users : RoleIn(perms[KB0], u) = asked[KB0][u]
    <3> TAKE u \in Users
    <3>1. CASE asked[KB0][u] = None
      BY <1>6, <3>1 DEF RoleIn, KBs
    <3>2. CASE asked[KB0][u] # None
      <4>1. perms[KB0][u] = [role |-> asked[KB0][u], id |-> Old] /\ asked[KB0][u] \in KbRoles
        BY <1>6, <3>2 DEF KBs
      <4>2. perms[KB0][u] \in Permission
        BY <4>1 DEF Permission
      <4> QED BY <4>1, <4>2 DEF RoleIn
    <3> QED BY <3>1, <3>2
  <2>2. RolesOf(perms[KB0]) = asked[KB0]
    BY <1>3, <2>1 DEF RolesOf, KBs, Lists
  <2> QED BY <1>3, <2>2 DEF PermissionsAsAsked
<1>13. DocumentsBelong /\ UniqueNames
  BY <1>3 DEF DocumentsBelong, UniqueNames, Docs
<1> QED BY <1>5, <1>7, <1>8, <1>9, <1>10, <1>11, <1>12, <1>13 DEF WorkspaceInductive, TypeOK

-----------------------------------------------------------------------------
(***************************************************************************)
(* A request that begins, ends without a write, or writes the other tables *)
(* leaves this half of the invariant as it is.                             *)
(***************************************************************************)
LEMMA KbsUntouched ==
    ASSUME WorkspaceInductive, NEW r \in Requests, NEW new, OneRequest(r, new),
           new \in {Idle, Over} \cup AccountRequest \cup KbRequest,
           UNCHANGED kbVars, new = Over \/ LooksAtKbs(new)
    PROVE /\ KbTypeOK' /\ KbsLook' /\ MadeByTheirRequest'
          /\ PermissionsAsAsked' /\ DocumentsBelong' /\ UniqueNames'
<1> USE DEF WorkspaceInductive, kbVars
<1>1. /\ req'[r] = new /\ req[r] # Over
      /\ \A p \in Requests : p # r => req'[p] = req[p]
      /\ \A p \in Requests : req[p] = Over => req'[p] = Over
  BY OtherRequests DEF OneRequest
<1>2. KbTypeOK'
  BY DEF TypeOK, KbTypeOK
<1>3. KbsLook'
  <2> SUFFICES ASSUME NEW p \in Requests, Running(p)' PROVE LooksAtKbs(req[p])'
    BY DEF KbsLook
  <2>1. LooksAtKbs(req'[p])
    <3>1. CASE p = r
      BY <1>1, <3>1 DEF Running, Over
    <3>2. CASE p # r
      BY <1>1, <3>2 DEF KbsLook, Running
    <3> QED BY <3>1, <3>2
  <2> QED BY <1>1, <2>1 DEF LooksAtKbs, HasOwner, DocsOf
<1>4. MadeByTheirRequest'
  BY <1>1 DEF MadeByTheirRequest
<1>5. PermissionsAsAsked' /\ DocumentsBelong' /\ UniqueNames'
  BY DEF PermissionsAsAsked, RolesOf, RoleIn, HasOwner, DocumentsBelong, UniqueNames
<1> QED BY <1>2, <1>3, <1>4, <1>5

LEMMA AccountsUntouched ==
    ASSUME WorkspaceInductive, NEW r \in Requests, NEW new, OneRequest(r, new),
           new \in {Idle, Over} \cup AccountRequest \cup KbRequest,
           UNCHANGED <<users, excused>>, usurped' \in BOOLEAN, usurped => usurped',
           files' \in SUBSET Files, torn' \in SUBSET Users,
           new = Over \/ LooksAtAccounts(new)
    PROVE AccountTypeOK' /\ AccountsLook' /\ SomeAdmin' /\ ForcedChange'
<1> USE DEF WorkspaceInductive
<1>1. /\ req'[r] = new
      /\ \A p \in Requests : p # r => req'[p] = req[p]
  BY OtherRequests
<1>2. AccountTypeOK'
  BY DEF TypeOK, AccountTypeOK
<1>3. AccountsLook'
  BY <1>1 DEF AccountsLook, Running, Over, LooksAtAccounts, SparesSelf
<1>4. SomeAdmin' /\ ForcedChange'
  BY DEF SomeAdmin, IsAdmin, Member, ForcedChange
<1> QED BY <1>2, <1>3, <1>4

\* A request begins.
LEMMA BeginKeeps ==
    ASSUME WorkspaceInductive, NEW r \in Requests,
           NEW new \in AccountRequest \cup KbRequest,
           LooksAtAccounts(new), LooksAtKbs(new),
           Begin(r, new), UNCHANGED kbVars
    PROVE WorkspaceInductive'
<1>1. OneRequest(r, new)
  BY DEF Begin, OneRequest, Idle, Over
<1>2. req' \in [Requests -> {Idle, Over} \cup AccountRequest \cup KbRequest]
  BY <1>1, OtherRequests DEF WorkspaceInductive
<1>3. AccountTypeOK' /\ AccountsLook' /\ SomeAdmin' /\ ForcedChange'
  BY <1>1, AccountsUntouched DEF Begin, WorkspaceInductive, TypeOK, AccountTypeOK
<1>4. /\ KbTypeOK' /\ KbsLook' /\ MadeByTheirRequest'
      /\ PermissionsAsAsked' /\ DocumentsBelong' /\ UniqueNames'
  BY <1>1, KbsUntouched
<1> QED BY <1>2, <1>3, <1>4 DEF WorkspaceInductive, TypeOK

\* A request fails.
LEMMA FailKeeps ==
    ASSUME WorkspaceInductive, NEW r \in Requests, Fail(r), UNCHANGED kbVars
    PROVE WorkspaceInductive'
<1>1. OneRequest(r, Over)
  BY DEF Fail, OneRequest, Running, Over
<1>2. req' \in [Requests -> {Idle, Over} \cup AccountRequest \cup KbRequest]
  BY <1>1, OtherRequests DEF WorkspaceInductive
<1>3. torn' \in SUBSET Users
  BY KindsOfRequests DEF Fail, WorkspaceInductive, TypeOK, AccountTypeOK
<1>4. AccountTypeOK' /\ AccountsLook' /\ SomeAdmin' /\ ForcedChange'
  BY <1>1, <1>3, AccountsUntouched DEF Fail, WorkspaceInductive, TypeOK, AccountTypeOK
<1>5. /\ KbTypeOK' /\ KbsLook' /\ MadeByTheirRequest'
      /\ PermissionsAsAsked' /\ DocumentsBelong' /\ UniqueNames'
  BY <1>1, KbsUntouched
<1> QED BY <1>2, <1>4, <1>5 DEF WorkspaceInductive, TypeOK

-----------------------------------------------------------------------------
(***************************************************************************)
(* The commits that write a row of users.                                  *)
(***************************************************************************)
LEMMA BodiesAreParts ==
    /\ \A set \in Bodies : PartOfRow(set)
    /\ PartOfRow([active |-> FALSE]) /\ PartOfRow(ForcedPassword) /\ PartOfRow(OwnPassword)
    /\ \A set \in [avatar: Requests \cup {None}] : PartOfRow(set)
<1>1. ASSUME NEW set \in Bodies PROVE PartOfRow(set)
  BY <1>1 DEF Bodies, PartOfRow, Columns
<1>2. PartOfRow([active |-> FALSE]) /\ PartOfRow(ForcedPassword) /\ PartOfRow(OwnPassword)
  BY DEF PartOfRow, Columns, ForcedPassword, OwnPassword
<1>3. ASSUME NEW set \in [avatar: Requests \cup {None}] PROVE PartOfRow(set)
  BY <1>3 DEF PartOfRow, Columns, Files
<1> QED BY <1>1, <1>2, <1>3

\* What a flush does to the table: one row, the columns that are written.
LEMMA FlushWrites ==
    ASSUME TypeOK, NEW r \in Requests, req[r].target \in Users,
           users[req[r].target] # None, PartOfRow(req[r].set), users' = Flushed(r)
    PROVE LET q == req[r]
              u == req[r].target IN
      /\ users' \in [Users -> Account \cup {None}]
      /\ users'[u] \in Account
      /\ \A c \in Columns : users'[u][c] = IF c \in Written(r) THEN q.set[c] ELSE users[u][c]
      /\ \A v \in Users : v # u => users'[v] = users[v]
      /\ \A v \in Users : users[v] # None => users'[v] # None
<1> DEFINE q == req[r]
           u == req[r].target
           new == Overwritten(users[u], q.set, Written(r))
<1>1. users \in [Users -> Account \cup {None}] /\ users[u] \in Account
  BY DEF TypeOK, AccountTypeOK
<1>2. Written(r) \in SUBSET DOMAIN q.set
  BY DEF Written
<1>3. new \in Account /\ \A c \in Columns : new[c] = IF c \in Written(r) THEN q.set[c] ELSE users[u][c]
  BY <1>1, <1>2, RowStaysARow
<1>4. users' = [users EXCEPT ![u] = new]
  BY DEF Flushed, Overwritten
<1> HIDE DEF new
<1>5. users'[u] = new /\ \A v \in Users : v # u => users'[v] = users[v]
  BY <1>1, <1>4
<1> QED BY <1>1, <1>3, <1>4, <1>5, AccountConstants

LEMMA CommitUserKeeps ==
    ASSUME WorkspaceInductive, NEW r \in Requests, CommitUser(r), UNCHANGED kbVars
    PROVE WorkspaceInductive'
<1> DEFINE q == req[r]
           u == req[r].target
<1> USE DEF WorkspaceInductive
<1>1. /\ Running(r) /\ OneRequest(r, Over) /\ users' = Flushed(r)
      /\ UNCHANGED <<files, torn>>
      /\ q.op \in {"update", "disable", "reset", "change"}
      /\ usurped' = (usurped \/ (q.op \in {"update", "disable"} /\ ~IsAdmin(q.actor)))
  BY DEF CommitUser, Running, Finish, OneRequest, Over
<1>2. /\ q.actor \in Users /\ u \in Users /\ q.saw \in Account
      /\ q.op = "update" => q.set \in Bodies /\ SparesSelf(q.actor, u, q.set)
      /\ q.op = "disable" => q.set = [active |-> FALSE] /\ q.actor # u
      /\ q.op = "reset" => q.set = ForcedPassword
      /\ q.op = "change" => q.set = OwnPassword
      /\ users[u] # None
  BY <1>1, KindsOfRequests DEF AccountsLook, LooksAtAccounts
<1>3. PartOfRow(q.set)
  BY <1>1, <1>2, BodiesAreParts
<1>4. /\ users' \in [Users -> Account \cup {None}] /\ users'[u] \in Account
      /\ \A c \in Columns : users'[u][c] = IF c \in Written(r) THEN q.set[c] ELSE users[u][c]
      /\ \A v \in Users : v # u => users'[v] = users[v]
      /\ \A v \in Users : users[v] # None => users'[v] # None
  BY <1>1, <1>2, <1>3, FlushWrites
<1>5. users[u] \in Account
  BY <1>2 DEF TypeOK, AccountTypeOK
<1>6. /\ req' \in [Requests -> {Idle, Over} \cup AccountRequest \cup KbRequest]
      /\ req'[r] = Over /\ \A p \in Requests : p # r => req'[p] = req[p]
  BY <1>1, OtherRequests
<1>7. /\ KbTypeOK' /\ KbsLook' /\ MadeByTheirRequest'
      /\ PermissionsAsAsked' /\ DocumentsBelong' /\ UniqueNames'
  BY <1>1, KbsUntouched
<1>8. AccountTypeOK'
  <2>1. excused' \in SUBSET Users
    BY <1>2 DEF CommitUser, Excuses, TypeOK, AccountTypeOK
  <2> QED BY <1>1, <1>4, <2>1 DEF TypeOK, AccountTypeOK
<1>9. AccountsLook'
  <2> SUFFICES ASSUME NEW p \in Requests, Running(p)' PROVE LooksAtAccounts(req[p])'
    BY DEF AccountsLook
  <2>1. p # r /\ Running(p) /\ req'[p] = req[p]
    BY <1>6 DEF Running, Over
  <2>2. req[p].op \in {"update", "disable", "reset", "change", "avatar", "noAvatar"} =>
          req[p].target \in Users
    BY <2>1, KindsOfRequests
  <2> QED BY <1>4, <2>1, <2>2 DEF AccountsLook, LooksAtAccounts, SparesSelf
\* The administrator who made the change is still one after it.
<1>10. SomeAdmin'
  <2>1. CASE q.op \in {"update", "disable"} /\ ~IsAdmin(q.actor)
    BY <1>1, <2>1 DEF SomeAdmin
  <2>2. CASE q.op \in {"update", "disable"} /\ IsAdmin(q.actor)
    <3>1. CASE q.actor # u
      BY <1>2, <1>4, <2>2, <3>1 DEF SomeAdmin, IsAdmin, Member
    <3>2. CASE q.actor = u
      <4>1. q.op = "update" /\ q.set \in Bodies /\ SparesSelf(u, u, q.set)
        BY <1>2, <2>2, <3>2
      <4>2. users'[u]["role"] = "admin" /\ users'[u]["active"] = TRUE
        BY <1>4, <2>2, <3>2, <4>1 DEF SparesSelf, Written, Columns, IsAdmin, Member
      <4> QED BY <1>2, <1>4, <4>2 DEF SomeAdmin, IsAdmin, Member
    <3> QED BY <3>1, <3>2
  <2>3. CASE q.op \in {"reset", "change"}
    <3>1. users'[u]["role"] = users[u]["role"] /\ users'[u]["active"] = users[u]["active"]
      BY <1>2, <1>4, <2>3 DEF Written, Columns, ForcedPassword, OwnPassword
    <3>2. \A v \in Users : IsAdmin(v) => IsAdmin(v)'
      BY <1>4, <3>1 DEF IsAdmin, Member
    <3> QED BY <1>1, <2>3, <3>2 DEF SomeAdmin
  <2> QED BY <1>1, <2>1, <2>2, <2>3
<1>11. ForcedChange'
  <2>1. \A v \in Users : v # u /\ v \in excused => v \in excused'
    BY DEF CommitUser, Excuses
  <2>2. CASE q.op = "change"
    <3>1. users'[u]["chosenBy"] = "self"
      BY <1>2, <1>4, <2>2 DEF Written, Columns, OwnPassword
    <3> QED BY <1>4, <2>1, <3>1 DEF ForcedChange
  <2>3. CASE q.op = "reset" /\ Stale(r)
    <3>1. u \in excused'
      BY <2>3 DEF CommitUser, Excuses
    <3> QED BY <1>4, <2>1, <3>1 DEF ForcedChange
  <2>4. CASE q.op = "reset" /\ ~Stale(r)
    <3>1. users'[u]["mustChange"] = TRUE
      BY <1>2, <1>4, <1>5, <2>4 DEF Written, Columns, ForcedPassword, Stale
    <3> QED BY <1>4, <2>1, <3>1 DEF ForcedChange
  <2>5. CASE q.op \in {"update", "disable"} /\ q.set = [mustChange |-> FALSE]
    <3>1. q.op = "update"
      <4>1. [active |-> FALSE] # [mustChange |-> FALSE]
        <5>1. DOMAIN [active |-> FALSE] # DOMAIN [mustChange |-> FALSE]
          OBVIOUS
        <5> QED BY <5>1
      <4> QED BY <1>2, <2>5, <4>1
    <3>2. u \in excused'
      BY <2>5, <3>1 DEF CommitUser, Excuses
    <3> QED BY <1>4, <2>1, <3>2 DEF ForcedChange
  <2>6. CASE q.op \in {"update", "disable"} /\ q.set # [mustChange |-> FALSE]
    <3>1. /\ users'[u]["chosenBy"] = users[u]["chosenBy"]
          /\ users'[u]["mustChange"] = TRUE \/ users'[u]["mustChange"] = users[u]["mustChange"]
      <4>1. CASE q.op = "disable"
        BY <1>2, <1>4, <4>1 DEF Written, Columns
      <4>2. CASE q.op = "update" /\ "mustChange" \notin DOMAIN q.set
        BY <1>2, <1>4, <4>2 DEF Written, Columns, Bodies
      <4>3. CASE q.op = "update" /\ "mustChange" \in DOMAIN q.set
        <5>1. q.set \in [{"mustChange"} -> BOOLEAN]
          BY <1>2, <4>3 DEF Bodies
        <5>2. q.set["mustChange"] = TRUE
          <6>1. CASE q.set["mustChange"] = FALSE
            BY <2>6, <5>1, <6>1
          <6> QED BY <5>1, <6>1
        <5> QED BY <1>4, <5>1, <5>2 DEF Written, Columns
      <4> QED BY <2>6, <4>1, <4>2, <4>3
    <3>2. u \in excused => u \in excused'
      BY <2>6 DEF CommitUser, Excuses
    <3> QED BY <1>2, <1>4, <2>1, <3>1, <3>2 DEF ForcedChange
  <2> QED BY <1>1, <2>2, <2>3, <2>4, <2>5, <2>6
<1> QED BY <1>6, <1>7, <1>8, <1>9, <1>10, <1>11 DEF TypeOK

LEMMA CommitCreateUserKeeps ==
    ASSUME WorkspaceInductive, NEW r \in Requests, CommitCreateUser(r), UNCHANGED kbVars
    PROVE WorkspaceInductive'
<1> DEFINE q == req[r]
           u == req[r].target
<1> USE AccountConstants DEF WorkspaceInductive
<1>1. /\ Running(r) /\ OneRequest(r, Over) /\ users[u] = None
      /\ users' = [users EXCEPT ![u] = NewAccount(q.set.role)]
      /\ UNCHANGED <<files, torn, excused>> /\ q.op = "create" /\ usurped' = usurped
  BY DEF CommitCreateUser, Running, Finish, OneRequest, Over, TypeOK, AccountTypeOK
<1>2. u \in Users /\ q.set.role \in SystemRoles
  BY <1>1, KindsOfRequests
<1>3. NewAccount(q.set.role) \in Account /\ NewAccount(q.set.role).chosenBy = "self"
  BY <1>2 DEF NewAccount, Account
<1>4. /\ users' \in [Users -> Account \cup {None}]
      /\ users'[u] \in Account /\ users'[u].chosenBy = "self"
      /\ \A v \in Users : v # u => users'[v] = users[v]
  BY <1>1, <1>2, <1>3 DEF TypeOK, AccountTypeOK
<1>5. /\ req' \in [Requests -> {Idle, Over} \cup AccountRequest \cup KbRequest]
      /\ req'[r] = Over /\ \A p \in Requests : p # r => req'[p] = req[p]
  BY <1>1, OtherRequests
<1>6. /\ KbTypeOK' /\ KbsLook' /\ MadeByTheirRequest'
      /\ PermissionsAsAsked' /\ DocumentsBelong' /\ UniqueNames'
  BY <1>1, KbsUntouched
<1>7. AccountTypeOK'
  BY <1>1, <1>4 DEF TypeOK, AccountTypeOK
<1>8. AccountsLook'
  <2> SUFFICES ASSUME NEW p \in Requests, Running(p)' PROVE LooksAtAccounts(req[p])'
    BY DEF AccountsLook
  <2>1. p # r /\ Running(p) /\ req'[p] = req[p]
    BY <1>5 DEF Running, Over
  <2> QED BY <1>1, <1>4, <2>1 DEF AccountsLook, LooksAtAccounts, SparesSelf
<1>9. SomeAdmin' /\ ForcedChange'
  BY <1>1, <1>2, <1>4 DEF SomeAdmin, IsAdmin, Member, ForcedChange
<1> QED BY <1>5, <1>6, <1>7, <1>8, <1>9 DEF TypeOK

LEMMA SwapFilesKeeps ==
    ASSUME WorkspaceInductive, NEW r \in Requests, SwapFiles(r), UNCHANGED kbVars
    PROVE WorkspaceInductive'
<1> DEFINE new == [req[r] EXCEPT !.phase = "filed"]
<1> USE DEF WorkspaceInductive
<1>1. Running(r) /\ req[r].op \in {"avatar", "noAvatar"} /\ OneRequest(r, new)
  BY DEF SwapFiles, Running, OneRequest, Over
<1>2. req[r] \in Asks({"begun", "filed"}, {"avatar", "noAvatar"}, Users, Account,
                      [avatar: Requests \cup {None}])
  BY <1>1, KindsOfRequests DEF AccountRequest, KbRequest, Asks
<1>3. new \in Asks({"begun", "filed"}, {"avatar", "noAvatar"}, Users, Account,
                   [avatar: Requests \cup {None}])
  BY <1>2 DEF Asks
<1>4. /\ new \in AccountRequest /\ new.op \in {"avatar", "noAvatar"}
      /\ new.target = req[r].target /\ req[r].saw \in Account
  BY <1>2, <1>3 DEF AccountRequest, Asks
<1>5. LooksAtAccounts(new) /\ LooksAtKbs(new)
  BY <1>1, <1>4 DEF AccountsLook, LooksAtAccounts, LooksAtKbs
<1>6. files' \in SUBSET Files
  BY <1>4 DEF SwapFiles, OldFile, NewFile, Files, TypeOK, AccountTypeOK
<1>7. req' \in [Requests -> {Idle, Over} \cup AccountRequest \cup KbRequest]
  BY <1>1, <1>4, OtherRequests
<1>8. AccountTypeOK' /\ AccountsLook' /\ SomeAdmin' /\ ForcedChange'
  BY <1>1, <1>4, <1>5, <1>6, AccountsUntouched DEF SwapFiles, TypeOK, AccountTypeOK
<1>9. /\ KbTypeOK' /\ KbsLook' /\ MadeByTheirRequest'
      /\ PermissionsAsAsked' /\ DocumentsBelong' /\ UniqueNames'
  BY <1>1, <1>4, <1>5, KbsUntouched
<1> QED BY <1>7, <1>8, <1>9 DEF TypeOK

LEMMA CommitAvatarKeeps ==
    ASSUME WorkspaceInductive, NEW r \in Requests, CommitAvatar(r), UNCHANGED kbVars
    PROVE WorkspaceInductive'
<1> DEFINE q == req[r]
           u == req[r].target
<1> USE DEF WorkspaceInductive
<1>1. /\ Running(r) /\ OneRequest(r, Over) /\ users' = Flushed(r)
      /\ UNCHANGED <<files, excused>> /\ torn' \in {torn, torn \cup {u}}
      /\ q.phase = "filed"
  BY DEF CommitAvatar, Running, Finish, OneRequest, Over
<1>2. /\ q.op \in {"avatar", "noAvatar"} /\ u \in Users /\ users[u] # None
      /\ q.set \in [avatar: Requests \cup {None}]
  BY <1>1, KindsOfRequests DEF AccountsLook, LooksAtAccounts
<1>3. usurped' = usurped
  BY <1>2 DEF CommitAvatar, Finish, TypeOK, AccountTypeOK
<1>4. /\ users' \in [Users -> Account \cup {None}] /\ users'[u] \in Account
      /\ \A c \in Columns : users'[u][c] = IF c \in Written(r) THEN q.set[c] ELSE users[u][c]
      /\ \A v \in Users : v # u => users'[v] = users[v]
      /\ \A v \in Users : users[v] # None => users'[v] # None
  BY <1>1, <1>2, FlushWrites, BodiesAreParts
<1>5. \A c \in {"role", "active", "mustChange", "chosenBy"} : users'[u][c] = users[u][c]
  BY <1>2, <1>4 DEF Written, Columns
<1>6. /\ req' \in [Requests -> {Idle, Over} \cup AccountRequest \cup KbRequest]
      /\ req'[r] = Over /\ \A p \in Requests : p # r => req'[p] = req[p]
  BY <1>1, OtherRequests
<1>7. /\ KbTypeOK' /\ KbsLook' /\ MadeByTheirRequest'
      /\ PermissionsAsAsked' /\ DocumentsBelong' /\ UniqueNames'
  BY <1>1, KbsUntouched
<1>8. AccountTypeOK'
  BY <1>1, <1>2, <1>3, <1>4 DEF TypeOK, AccountTypeOK
<1>9. AccountsLook'
  <2> SUFFICES ASSUME NEW p \in Requests, Running(p)' PROVE LooksAtAccounts(req[p])'
    BY DEF AccountsLook
  <2>1. p # r /\ Running(p) /\ req'[p] = req[p]
    BY <1>6 DEF Running, Over
  <2>2. req[p].op \in {"update", "disable", "reset", "change", "avatar", "noAvatar"} =>
          req[p].target \in Users
    BY <2>1, KindsOfRequests
  <2> QED BY <1>4, <2>1, <2>2 DEF AccountsLook, LooksAtAccounts, SparesSelf
<1>10. SomeAdmin'
  <2>1. \A v \in Users : IsAdmin(v) => IsAdmin(v)'
    BY <1>4, <1>5 DEF IsAdmin, Member
  <2> QED BY <1>3, <2>1 DEF SomeAdmin
<1>11. ForcedChange'
  BY <1>1, <1>2, <1>4, <1>5 DEF ForcedChange
<1> QED BY <1>6, <1>7, <1>8, <1>9, <1>10, <1>11 DEF TypeOK

\* Every step of the accounts.
LEMMA AccountStep ==
    ASSUME WorkspaceInductive, AccountNext, UNCHANGED kbVars
    PROVE WorkspaceInductive'
<1> USE DEF WorkspaceInductive
<1>1. \A u \in Users : users[u] # None => users[u] \in Account
  BY DEF TypeOK, AccountTypeOK
<1>2. ASSUME NEW r \in Requests, NEW a \in Users, NEW u \in Users, NEW set \in Bodies,
             BeginUpdateUser(r, a, u, set)
      PROVE WorkspaceInductive'
  <2> DEFINE new == Begun("update", a, u, users[u], set)
  <2>1. new \in AccountRequest
    BY <1>1, <1>2 DEF BeginUpdateUser, Begun, AccountRequest, Asks
  <2>2. LooksAtAccounts(new) /\ LooksAtKbs(new)
    BY <1>2 DEF BeginUpdateUser, LooksAtAccounts, LooksAtKbs, Begun
  <2> QED BY <1>2, <2>1, <2>2, BeginKeeps DEF BeginUpdateUser
<1>3. ASSUME NEW r \in Requests, NEW a \in Users, NEW u \in Users, BeginDisableUser(r, a, u)
      PROVE WorkspaceInductive'
  <2> DEFINE new == Begun("disable", a, u, users[u], [active |-> FALSE])
  <2>1. new \in AccountRequest
    BY <1>1, <1>3 DEF BeginDisableUser, Begun, AccountRequest, Asks
  <2>2. LooksAtAccounts(new) /\ LooksAtKbs(new)
    BY <1>3 DEF BeginDisableUser, LooksAtAccounts, LooksAtKbs, Begun
  <2> QED BY <1>3, <2>1, <2>2, BeginKeeps DEF BeginDisableUser
<1>4. ASSUME NEW r \in Requests, NEW a \in Users, NEW u \in Users, BeginResetPassword(r, a, u)
      PROVE WorkspaceInductive'
  <2> DEFINE new == Begun("reset", a, u, users[u], ForcedPassword)
  <2>1. new \in AccountRequest
    BY <1>1, <1>4 DEF BeginResetPassword, Begun, AccountRequest, Asks
  <2>2. LooksAtAccounts(new) /\ LooksAtKbs(new)
    BY <1>4 DEF BeginResetPassword, LooksAtAccounts, LooksAtKbs, Begun
  <2> QED BY <1>4, <2>1, <2>2, BeginKeeps DEF BeginResetPassword
<1>5. ASSUME NEW r \in Requests, NEW a \in Users, NEW u \in Users, NEW role \in SystemRoles,
             BeginCreateUser(r, a, u, role)
      PROVE WorkspaceInductive'
  <2> DEFINE new == Begun("create", a, u, None, [role |-> role])
  <2>1. new \in AccountRequest
    BY <1>5 DEF Begun, AccountRequest, Asks
  <2>2. LooksAtAccounts(new) /\ LooksAtKbs(new)
    BY DEF LooksAtAccounts, LooksAtKbs, Begun
  <2> QED BY <1>5, <2>1, <2>2, BeginKeeps DEF BeginCreateUser
<1>6. ASSUME NEW r \in Requests, NEW u \in Users, BeginChangePassword(r, u)
      PROVE WorkspaceInductive'
  <2> DEFINE new == Begun("change", u, u, users[u], OwnPassword)
  <2>1. new \in AccountRequest
    BY <1>1, <1>6 DEF BeginChangePassword, Member, Begun, AccountRequest, Asks
  <2>2. LooksAtAccounts(new) /\ LooksAtKbs(new)
    BY <1>6 DEF BeginChangePassword, Member, LooksAtAccounts, LooksAtKbs, Begun
  <2> QED BY <1>6, <2>1, <2>2, BeginKeeps DEF BeginChangePassword
<1>7. ASSUME NEW r \in Requests, NEW u \in Users, NEW op \in {"avatar", "noAvatar"},
             BeginAvatar(r, u, op)
      PROVE WorkspaceInductive'
  <2> DEFINE new == Begun(op, u, u, users[u], [avatar |-> IF op = "avatar" THEN r ELSE None])
  <2>1. new \in AccountRequest
    BY <1>1, <1>7 DEF BeginAvatar, Member, Begun, AccountRequest, Asks
  <2>2. LooksAtAccounts(new) /\ LooksAtKbs(new)
    BY <1>7 DEF BeginAvatar, Member, LooksAtAccounts, LooksAtKbs, Begun
  <2> QED BY <1>7, <2>1, <2>2, BeginKeeps DEF BeginAvatar
<1>8. ASSUME NEW r \in Requests,
             CommitUser(r) \/ CommitCreateUser(r) \/ SwapFiles(r) \/ CommitAvatar(r)
      PROVE WorkspaceInductive'
  BY <1>8, CommitUserKeeps, CommitCreateUserKeeps, SwapFilesKeeps, CommitAvatarKeeps
<1> QED BY <1>2, <1>3, <1>4, <1>5, <1>6, <1>7, <1>8 DEF AccountNext

-----------------------------------------------------------------------------
(***************************************************************************)
(* The commits that write the rows of knowledge bases.                     *)
(***************************************************************************)
LEMMA KbCommitFrame ==
    ASSUME WorkspaceInductive, NEW r \in Requests, req[r].phase = "begun",
           req[r].op \in {"createKb", "permissions", "upload", "deleteDoc", "deleteKb"},
           Finish(r), UNCHANGED <<users, files, excused, torn>>
    PROVE /\ Running(r) /\ req[r] # Over
          /\ AccountTypeOK' /\ AccountsLook' /\ SomeAdmin' /\ ForcedChange'
          /\ req' \in [Requests -> {Idle, Over} \cup AccountRequest \cup KbRequest]
          /\ req'[r] = Over
          /\ \A p \in Requests : p # r => req'[p] = req[p]
          /\ \A p \in Requests : req[p] = Over => req'[p] = Over
          /\ \A p \in Requests : Running(p)' => p # r /\ Running(p) /\ LooksAtKbs(req[p])
<1> USE DEF WorkspaceInductive
<1>1. Running(r) /\ OneRequest(r, Over)
  BY DEF Running, Finish, OneRequest, Over
<1>2. /\ req' \in [Requests -> {Idle, Over} \cup AccountRequest \cup KbRequest]
      /\ req'[r] = Over /\ \A p \in Requests : p # r => req'[p] = req[p]
      /\ \A p \in Requests : req[p] = Over => req'[p] = Over
  BY <1>1, OtherRequests
<1>3. usurped' = usurped
  BY DEF Finish, TypeOK, AccountTypeOK
<1>4. AccountTypeOK' /\ AccountsLook' /\ SomeAdmin' /\ ForcedChange'
  BY <1>1, <1>3, AccountsUntouched DEF TypeOK, AccountTypeOK
<1>5. \A p \in Requests : Running(p)' => p # r /\ Running(p) /\ LooksAtKbs(req[p])
  BY <1>2 DEF Running, Over, KbsLook
<1> QED BY <1>1, <1>2, <1>4, <1>5 DEF OneRequest

LEMMA CommitCreateKbKeeps ==
    ASSUME WorkspaceInductive, NEW r \in Requests, CommitCreateKb(r)
    PROVE WorkspaceInductive'
<1> DEFINE a == req[r].actor
           mine == [u \in Users |-> IF u = a THEN "owner" ELSE None]
           row == [role |-> "owner", id |-> r]
<1> USE KbConstants DEF WorkspaceInductive
<1>1. /\ req[r].phase = "begun" /\ req[r].op = "createKb" /\ Finish(r)
      /\ UNCHANGED <<users, files, excused, torn>>
      /\ kbs' = kbs \cup {r}
      /\ perms' = [perms EXCEPT ![r][a] = row]
      /\ asked' = [asked EXCEPT ![r] = mine]
      /\ UNCHANGED <<docs, merged, blind, orphaned>>
  BY DEF CommitCreateKb, CreatorRole
<1>2. /\ Running(r) /\ req[r] # Over
      /\ AccountTypeOK' /\ AccountsLook' /\ SomeAdmin' /\ ForcedChange'
      /\ req' \in [Requests -> {Idle, Over} \cup AccountRequest \cup KbRequest]
      /\ req'[r] = Over
      /\ \A p \in Requests : p # r => req'[p] = req[p]
      /\ \A p \in Requests : req[p] = Over => req'[p] = Over
      /\ \A p \in Requests : Running(p)' => p # r /\ Running(p) /\ LooksAtKbs(req[p])
  BY <1>1, KbCommitFrame
<1>3. a \in Users /\ r \notin kbs /\ perms[r] = Nobody /\ r \in KBs
  BY <1>1, <1>2, KindsOfKbRequests DEF MadeByTheirRequest, KBs
<1>4. row \in Permission /\ row # None /\ mine \in Lists
  BY DEF Permission, KbRoles, Lists
<1>5. /\ perms' \in [KBs -> [Users -> Permission \cup {None}]]
      /\ perms'[r][a] = row
      /\ \A u \in Users : u # a => perms'[r][u] = None
      /\ \A k \in KBs : k # r => perms'[k] = perms[k]
      /\ asked' \in [KBs -> Lists] /\ asked'[r] = mine
      /\ \A k \in KBs : k # r => asked'[k] = asked[k]
  BY <1>1, <1>3, <1>4 DEF TypeOK, KbTypeOK, Nobody
<1>6. KbTypeOK'
  BY <1>1, <1>3, <1>5 DEF TypeOK, KbTypeOK
<1>7. KbsLook'
  BY <1>1, <1>2 DEF KbsLook, LooksAtKbs, HasOwner, DocsOf
<1>8. MadeByTheirRequest'
  BY <1>1, <1>2, <1>5 DEF MadeByTheirRequest, KBs, Nobody
<1>9. PermissionsAsAsked'
  <2>1. \A u \in Users : RoleIn(perms'[r], u) = mine[u]
    BY <1>4, <1>5 DEF RoleIn
  <2>2. RolesOf(perms'[r]) = asked'[r] /\ HasOwner(asked'[r])
    BY <1>3, <1>5, <2>1 DEF RolesOf, HasOwner
  <2> QED BY <1>1, <1>5, <2>2 DEF PermissionsAsAsked, RolesOf, RoleIn, HasOwner
<1>10. DocumentsBelong' /\ UniqueNames'
  BY <1>1 DEF DocumentsBelong, UniqueNames
<1> QED BY <1>2, <1>6, <1>7, <1>8, <1>9, <1>10 DEF TypeOK

LEMMA CommitPermissionsKeeps ==
    ASSUME WorkspaceInductive, NEW r \in Requests, CommitPermissions(r)
    PROVE WorkspaceInductive'
<1> DEFINE k == req[r].target
           loaded == req[r].saw
           list == req[r].set
           after(u) == AfterUpdate(loaded[u], perms[k][u], list[u], r)
<1> USE KbConstants DEF WorkspaceInductive
<1>1. /\ req[r].phase = "begun" /\ req[r].op = "permissions" /\ Finish(r)
      /\ UNCHANGED <<users, files, excused, torn>>
      /\ ~Conflicts(r)
      /\ perms' = [perms EXCEPT ![k] = [u \in Users |-> after(u)]]
      /\ asked' = [asked EXCEPT ![k] = list]
      /\ merged' = IF loaded = perms[k] THEN merged \ {k} ELSE merged \cup {k}
      /\ UNCHANGED <<kbs, docs, blind, orphaned>>
  BY DEF CommitPermissions, TypeOK, KbTypeOK
<1>2. /\ Running(r) /\ req[r] # Over
      /\ AccountTypeOK' /\ AccountsLook' /\ SomeAdmin' /\ ForcedChange'
      /\ req' \in [Requests -> {Idle, Over} \cup AccountRequest \cup KbRequest]
      /\ req'[r] = Over
      /\ \A p \in Requests : p # r => req'[p] = req[p]
      /\ \A p \in Requests : req[p] = Over => req'[p] = Over
      /\ \A p \in Requests : Running(p)' => p # r /\ Running(p) /\ LooksAtKbs(req[p])
  BY <1>1, KbCommitFrame
<1>3. /\ k \in KBs /\ loaded \in [Users -> Permission \cup {None}] /\ list \in Lists
      /\ HasOwner(list)
      /\ k \in Requests => req[k] = Over
  BY <1>1, <1>2, KindsOfKbRequests DEF KbsLook, LooksAtKbs
<1>4. ASSUME NEW u \in Users
      PROVE /\ after(u) \in Permission \cup {None}
            /\ loaded = perms[k] => RoleIn([v \in Users |-> after(v)], u) = list[u]
  <2>1. /\ perms[k][u] \in Permission \cup {None} /\ loaded[u] \in Permission \cup {None}
        /\ list[u] \in KbRoles \cup {None}
    BY <1>3 DEF TypeOK, KbTypeOK, Lists
  <2>2. CASE list[u] = None
    <3>1. after(u) \in {perms[k][u], None} /\ (loaded = perms[k] => after(u) = None)
      BY <2>2 DEF AfterUpdate, AfterDelete
    <3> QED BY <2>1, <2>2, <3>1 DEF RoleIn
  <2>3. CASE list[u] # None /\ loaded[u] = None
    <3>1. after(u) = [role |-> list[u], id |-> r] /\ [role |-> list[u], id |-> r] \in Permission
      BY <2>1, <2>3 DEF AfterUpdate, Permission
    <3> QED BY <3>1 DEF RoleIn
  <2>4. CASE list[u] # None /\ loaded[u] # None /\ loaded[u].role = list[u]
    <3>1. after(u) = perms[k][u]
      BY <2>4 DEF AfterUpdate
    <3> QED BY <2>1, <2>4, <3>1 DEF RoleIn
  <2>5. CASE list[u] # None /\ loaded[u] # None /\ loaded[u].role # list[u]
    <3>1. perms[k][u] \in Permission
      BY <1>1, <2>1, <2>5 DEF Conflicts
    <3>2. /\ after(u) = [role |-> list[u], id |-> perms[k][u].id]
          /\ [role |-> list[u], id |-> perms[k][u].id] \in Permission
      BY <2>1, <2>5, <3>1 DEF AfterUpdate, Permission
    <3> QED BY <3>2 DEF RoleIn
  <2> QED BY <2>2, <2>3, <2>4, <2>5
<1> HIDE DEF after
<1>5. /\ perms' \in [KBs -> [Users -> Permission \cup {None}]]
      /\ perms'[k] = [u \in Users |-> after(u)]
      /\ \A j \in KBs : j # k => perms'[j] = perms[j]
      /\ asked' \in [KBs -> Lists] /\ asked'[k] = list
      /\ \A j \in KBs : j # k => asked'[j] = asked[j]
  BY <1>1, <1>3, <1>4 DEF TypeOK, KbTypeOK
<1>6. KbTypeOK'
  BY <1>1, <1>3, <1>5 DEF TypeOK, KbTypeOK
<1>7. KbsLook'
  BY <1>1, <1>2 DEF KbsLook, LooksAtKbs, HasOwner, DocsOf
<1>8. MadeByTheirRequest'
  BY <1>1, <1>2, <1>3, <1>5 DEF MadeByTheirRequest, KBs
<1>9. PermissionsAsAsked'
  <2>1. CASE loaded = perms[k]
    <3>1. RolesOf(perms'[k]) = list
      <4>1. \A u \in Users : RoleIn(perms'[k], u) = list[u]
        BY <1>4, <1>5, <2>1
      <4> QED BY <1>3, <4>1 DEF RolesOf, Lists
    <3> QED BY <1>1, <1>3, <1>5, <2>1, <3>1 DEF PermissionsAsAsked, RolesOf, RoleIn, HasOwner
  <2>2. CASE loaded # perms[k]
    BY <1>1, <1>5, <2>2 DEF PermissionsAsAsked, RolesOf, RoleIn, HasOwner
  <2> QED BY <2>1, <2>2
<1>10. DocumentsBelong' /\ UniqueNames'
  BY <1>1 DEF DocumentsBelong, UniqueNames
<1> QED BY <1>2, <1>6, <1>7, <1>8, <1>9, <1>10 DEF TypeOK

LEMMA CommitUploadKeeps ==
    ASSUME WorkspaceInductive, NEW r \in Requests, CommitUpload(r)
    PROVE WorkspaceInductive'
<1> DEFINE k == req[r].target
           row == req[r].set
<1> USE KbConstants DEF WorkspaceInductive
<1>1. /\ req[r].phase = "begun" /\ req[r].op = "upload" /\ Finish(r)
      /\ UNCHANGED <<users, files, excused, torn>>
      /\ k \in kbs
      /\ docs' = [docs EXCEPT ![r] = row]
      /\ blind' = IF req[r].saw # DocsOf(k) THEN blind \cup {r} ELSE blind
      /\ orphaned' = IF BeingDeleted(k) THEN orphaned \cup {r} ELSE orphaned
      /\ UNCHANGED <<kbs, perms, asked, merged>>
  BY DEF CommitUpload
<1>2. /\ Running(r) /\ req[r] # Over
      /\ AccountTypeOK' /\ AccountsLook' /\ SomeAdmin' /\ ForcedChange'
      /\ req' \in [Requests -> {Idle, Over} \cup AccountRequest \cup KbRequest]
      /\ req'[r] = Over
      /\ \A p \in Requests : p # r => req'[p] = req[p]
      /\ \A p \in Requests : req[p] = Over => req'[p] = Over
      /\ \A p \in Requests : Running(p)' => p # r /\ Running(p) /\ LooksAtKbs(req[p])
  BY <1>1, KbCommitFrame
<1>3. /\ k \in KBs /\ row \in Document /\ row # None /\ row.kb = k /\ r \in Docs
      /\ \A d \in req[r].saw : docs[d] = None \/ docs[d].name # row.name
  BY <1>1, <1>2, KindsOfKbRequests DEF KbsLook, LooksAtKbs, Docs
<1>4. /\ docs' \in [Docs -> Document \cup {None}] /\ docs'[r] = row /\ docs[r] = None
      /\ \A d \in Docs : d # r => docs'[d] = docs[d]
  BY <1>1, <1>2, <1>3 DEF TypeOK, KbTypeOK, MadeByTheirRequest
<1>5. KbTypeOK'
  BY <1>1, <1>3, <1>4 DEF TypeOK, KbTypeOK
<1>6. KbsLook'
  <2> SUFFICES ASSUME NEW p \in Requests, Running(p)' PROVE LooksAtKbs(req[p])'
    BY DEF KbsLook
  <2>1. p # r /\ Running(p) /\ LooksAtKbs(req[p]) /\ req'[p] = req[p]
    BY <1>2
  <2>2. ASSUME req[p].op = "deleteKb"
        PROVE (DocsOf(req[p].target) \subseteq req[p].saw \cup orphaned)'
    <3>1. CASE k = req[p].target
      <4>1. req[p].phase = "begun"
        BY <2>1, <2>2, KindsOfRequests DEF Running
      <4>2. r \in orphaned'
        BY <1>1, <2>2, <3>1, <4>1 DEF BeingDeleted
      <4> QED BY <1>1, <1>4, <2>1, <2>2, <4>2 DEF DocsOf, LooksAtKbs
    <3>2. CASE k # req[p].target
      BY <1>1, <1>3, <1>4, <2>1, <2>2, <3>2 DEF DocsOf, LooksAtKbs
    <3> QED BY <3>1, <3>2
  <2>3. ASSUME req[p].op = "upload"
        PROVE \A d \in req[p].saw : docs'[d] = None \/ docs'[d].name # req[p].set.name
    <3>1. r \notin req[p].saw /\ req[p].saw \subseteq Docs
      BY <1>2, <2>1, <2>3, KindsOfKbRequests DEF LooksAtKbs
    <3> QED BY <1>4, <2>1, <2>3, <3>1 DEF LooksAtKbs
  <2> QED BY <1>2, <2>1, <2>2, <2>3 DEF LooksAtKbs, HasOwner
<1>7. MadeByTheirRequest'
  BY <1>1, <1>2, <1>4 DEF MadeByTheirRequest, Docs, Nobody
<1>8. PermissionsAsAsked'
  BY <1>1 DEF PermissionsAsAsked, RolesOf, RoleIn, HasOwner
<1>9. DocumentsBelong'
  BY <1>1, <1>3, <1>4 DEF DocumentsBelong
<1>10. UniqueNames'
  <2>1. ASSUME NEW e \in Docs, e # r, docs'[e] = row PROVE r \in blind'
    <3>1. docs[e] = row /\ e \in DocsOf(k)
      BY <1>3, <1>4, <2>1 DEF DocsOf
    <3>2. e \notin req[r].saw
      BY <1>3, <3>1
    <3> QED BY <1>1, <3>1, <3>2
  <2>2. blind \subseteq blind'
    BY <1>1
  <2> QED BY <1>4, <2>1, <2>2 DEF UniqueNames
<1> QED BY <1>2, <1>5, <1>6, <1>7, <1>8, <1>9, <1>10 DEF TypeOK

LEMMA CommitDeleteDocumentKeeps ==
    ASSUME WorkspaceInductive, NEW r \in Requests, CommitDeleteDocument(r)
    PROVE WorkspaceInductive'
<1> DEFINE d == req[r].target
<1> USE DEF WorkspaceInductive
<1>1. /\ req[r].phase = "begun" /\ req[r].op = "deleteDoc" /\ Finish(r)
      /\ UNCHANGED <<users, files, excused, torn>>
      /\ docs' = [docs EXCEPT ![d] = None]
      /\ UNCHANGED <<kbs, perms, asked, merged, blind, orphaned>>
  BY DEF CommitDeleteDocument
<1>2. /\ Running(r) /\ req[r] # Over
      /\ AccountTypeOK' /\ AccountsLook' /\ SomeAdmin' /\ ForcedChange'
      /\ req' \in [Requests -> {Idle, Over} \cup AccountRequest \cup KbRequest]
      /\ req'[r] = Over
      /\ \A p \in Requests : p # r => req'[p] = req[p]
      /\ \A p \in Requests : req[p] = Over => req'[p] = Over
      /\ \A p \in Requests : Running(p)' => p # r /\ Running(p) /\ LooksAtKbs(req[p])
  BY <1>1, KbCommitFrame
<1>3. /\ d \in Docs
      /\ docs' \in [Docs -> Document \cup {None}]
      /\ \A e \in Docs : docs'[e] = None \/ docs'[e] = docs[e]
  BY <1>1, <1>2, KindsOfKbRequests DEF TypeOK, KbTypeOK
<1>4. KbTypeOK'
  BY <1>1, <1>3 DEF TypeOK, KbTypeOK
<1>5. KbsLook'
  <2> SUFFICES ASSUME NEW p \in Requests, Running(p)' PROVE LooksAtKbs(req[p])'
    BY DEF KbsLook
  <2>1. p # r /\ Running(p) /\ LooksAtKbs(req[p]) /\ req'[p] = req[p]
    BY <1>2
  <2>2. req[p].op = "upload" => req[p].saw \subseteq Docs
    BY <2>1, KindsOfKbRequests
  <2> QED BY <1>1, <1>2, <1>3, <2>1, <2>2 DEF LooksAtKbs, HasOwner, DocsOf
<1>6. MadeByTheirRequest'
  BY <1>1, <1>2, <1>3 DEF MadeByTheirRequest, Nobody, Docs
<1>7. PermissionsAsAsked'
  BY <1>1 DEF PermissionsAsAsked, RolesOf, RoleIn, HasOwner
<1>8. DocumentsBelong' /\ UniqueNames'
  BY <1>1, <1>3 DEF DocumentsBelong, UniqueNames
<1> QED BY <1>2, <1>4, <1>5, <1>6, <1>7, <1>8 DEF TypeOK

LEMMA CommitDeleteKbKeeps ==
    ASSUME WorkspaceInductive, NEW r \in Requests, CommitDeleteKb(r)
    PROVE WorkspaceInductive'
<1> DEFINE k == req[r].target
<1> USE DEF WorkspaceInductive
<1>1. /\ req[r].phase = "begun" /\ req[r].op = "deleteKb" /\ Finish(r)
      /\ UNCHANGED <<users, files, excused, torn>>
      /\ docs' = [d \in Docs |-> IF d \in req[r].saw THEN None ELSE docs[d]]
      /\ perms' = [perms EXCEPT ![k] = Nobody]
      /\ asked' = [asked EXCEPT ![k] = Nobody]
      /\ kbs' = kbs \ {k}
      /\ UNCHANGED <<merged, blind, orphaned>>
  BY DEF CommitDeleteKb, ListedDocs
<1>2. /\ Running(r) /\ req[r] # Over
      /\ AccountTypeOK' /\ AccountsLook' /\ SomeAdmin' /\ ForcedChange'
      /\ req' \in [Requests -> {Idle, Over} \cup AccountRequest \cup KbRequest]
      /\ req'[r] = Over
      /\ \A p \in Requests : p # r => req'[p] = req[p]
      /\ \A p \in Requests : req[p] = Over => req'[p] = Over
      /\ \A p \in Requests : Running(p)' => p # r /\ Running(p) /\ LooksAtKbs(req[p])
  BY <1>1, KbCommitFrame
<1>3. k \in KBs /\ DocsOf(k) \subseteq req[r].saw \cup orphaned
  BY <1>1, <1>2, KindsOfKbRequests DEF KbsLook, LooksAtKbs
<1>4. /\ docs' \in [Docs -> Document \cup {None}]
      /\ \A e \in Docs : docs'[e] = None \/ (docs'[e] = docs[e] /\ e \notin req[r].saw)
      /\ \A e \in Docs : docs[e] = None => docs'[e] = None
  BY <1>1 DEF TypeOK, KbTypeOK
<1>5. /\ perms' \in [KBs -> [Users -> Permission \cup {None}]]
      /\ perms'[k] = Nobody
      /\ \A j \in KBs : j # k => perms'[j] = perms[j] /\ asked'[j] = asked[j]
      /\ asked' \in [KBs -> Lists]
  <2>1. Nobody \in [Users -> Permission \cup {None}] /\ Nobody \in Lists
    BY DEF Nobody, Lists
  <2> QED BY <1>1, <1>3, <2>1 DEF TypeOK, KbTypeOK
<1>6. KbTypeOK'
  BY <1>1, <1>4, <1>5 DEF TypeOK, KbTypeOK
<1>7. KbsLook'
  <2> SUFFICES ASSUME NEW p \in Requests, Running(p)' PROVE LooksAtKbs(req[p])'
    BY DEF KbsLook
  <2>1. p # r /\ Running(p) /\ LooksAtKbs(req[p]) /\ req'[p] = req[p]
    BY <1>2
  <2>2. req[p].op = "upload" => req[p].saw \subseteq Docs
    BY <2>1, KindsOfKbRequests
  <2> QED BY <1>1, <1>2, <1>4, <2>1, <2>2 DEF LooksAtKbs, HasOwner, DocsOf
<1>8. MadeByTheirRequest'
  BY <1>1, <1>2, <1>4, <1>5 DEF MadeByTheirRequest, Nobody, Docs, KBs
<1>9. PermissionsAsAsked'
  BY <1>1, <1>5 DEF PermissionsAsAsked, RolesOf, RoleIn, HasOwner
<1>10. DocumentsBelong'
  BY <1>1, <1>3, <1>4 DEF DocumentsBelong, DocsOf
<1>11. UniqueNames'
  BY <1>1, <1>4 DEF UniqueNames
<1> QED BY <1>2, <1>6, <1>7, <1>8, <1>9, <1>10, <1>11 DEF TypeOK

\* Every step of the knowledge bases.
LEMMA KbStep ==
    ASSUME WorkspaceInductive, KbNext
    PROVE WorkspaceInductive'
<1> USE DEF WorkspaceInductive
<1>1. kbs \subseteq KBs /\ perms \in [KBs -> [Users -> Permission \cup {None}]]
  BY DEF TypeOK, KbTypeOK
<1>2. \A k \in kbs : k \in Requests => req[k] = Over
  BY DEF MadeByTheirRequest
<1>3. ASSUME NEW r \in Requests, NEW a \in Users, BeginCreateKb(r, a) PROVE WorkspaceInductive'
  <2> DEFINE new == Begun("createKb", a, r, None, None)
  <2>1. new \in KbRequest
    BY DEF Begun, KbRequest, Asks
  <2>2. LooksAtAccounts(new) /\ LooksAtKbs(new)
    BY DEF LooksAtAccounts, LooksAtKbs, Begun
  <2> QED BY <1>3, <2>1, <2>2, BeginKeeps DEF BeginCreateKb, BeginKb
<1>4. ASSUME NEW r \in Requests, NEW a \in Users, NEW k \in kbs, NEW list \in Lists,
             BeginPermissions(r, a, k, list)
      PROVE WorkspaceInductive'
  <2> DEFINE new == Begun("permissions", a, k, perms[k], list)
  <2>1. new \in KbRequest
    BY <1>1 DEF Begun, KbRequest, Asks
  <2>2. LooksAtAccounts(new) /\ LooksAtKbs(new)
    BY <1>2, <1>4 DEF LooksAtAccounts, LooksAtKbs, Begun, BeginPermissions
  <2> QED BY <1>4, <2>1, <2>2, BeginKeeps DEF BeginPermissions, BeginKb
<1>5. ASSUME NEW r \in Requests, NEW a \in Users, NEW k \in kbs, NEW n \in Names,
             BeginUpload(r, a, k, n)
      PROVE WorkspaceInductive'
  <2> DEFINE new == Begun("upload", a, k, DocsOf(k), Row(k, n))
  <2>1. new \in KbRequest
    BY <1>1 DEF Begun, KbRequest, Asks, DocsOf, Row, Document
  <2>2. \A d \in DocsOf(k) : docs[d].name # n /\ (d \in Requests => req[d] = Over)
    BY <1>5 DEF BeginUpload, NewName, DocsOf, MadeByTheirRequest
  <2>3. LooksAtAccounts(new) /\ LooksAtKbs(new)
    BY <1>2, <2>2 DEF LooksAtAccounts, LooksAtKbs, Begun, Row
  <2> QED BY <1>5, <2>1, <2>3, BeginKeeps DEF BeginUpload, BeginKb
<1>6. ASSUME NEW r \in Requests, NEW a \in Users, NEW k \in kbs, BeginDeleteKb(r, a, k)
      PROVE WorkspaceInductive'
  <2> DEFINE new == Begun("deleteKb", a, k, DocsOf(k), None)
  <2>1. new \in KbRequest
    BY <1>1 DEF Begun, KbRequest, Asks, DocsOf
  <2>2. LooksAtAccounts(new) /\ LooksAtKbs(new)
    BY <1>2 DEF LooksAtAccounts, LooksAtKbs, Begun
  <2> QED BY <1>6, <2>1, <2>2, BeginKeeps DEF BeginDeleteKb, BeginKb
<1>7. ASSUME NEW r \in Requests, NEW a \in Users, NEW d \in Docs, BeginDeleteDocument(r, a, d)
      PROVE WorkspaceInductive'
  <2> DEFINE new == Begun("deleteDoc", a, d, None, None)
  <2>1. new \in KbRequest
    BY DEF Begun, KbRequest, Asks
  <2>2. LooksAtAccounts(new) /\ LooksAtKbs(new)
    BY DEF LooksAtAccounts, LooksAtKbs, Begun
  <2> QED BY <1>7, <2>1, <2>2, BeginKeeps DEF BeginDeleteDocument, BeginKb
<1>8. ASSUME NEW r \in Requests,
             \/ CommitCreateKb(r) \/ CommitPermissions(r) \/ CommitUpload(r)
             \/ CommitDeleteDocument(r) \/ CommitDeleteKb(r)
      PROVE WorkspaceInductive'
  BY <1>8, CommitCreateKbKeeps, CommitPermissionsKeeps, CommitUploadKeeps,
     CommitDeleteDocumentKeeps, CommitDeleteKbKeeps
<1> QED BY <1>3, <1>4, <1>5, <1>6, <1>7, <1>8 DEF KbNext

-----------------------------------------------------------------------------
LEMMA WorkspaceStep == WorkspaceInductive /\ [Next]_vars => WorkspaceInductive'
<1> SUFFICES ASSUME WorkspaceInductive, [Next]_vars PROVE WorkspaceInductive'
  OBVIOUS
<1>1. CASE AccountNext /\ UNCHANGED kbVars
  BY <1>1, AccountStep
<1>2. CASE KbNext
  BY <1>2, KbStep
<1>3. ASSUME NEW r \in Requests, Fail(r), UNCHANGED kbVars PROVE WorkspaceInductive'
  BY <1>3, FailKeeps
<1>4. CASE UNCHANGED vars
  <2> USE <1>4 DEF WorkspaceInductive, vars, accountVars, kbVars
  <2>1. TypeOK' /\ AccountsLook' /\ SomeAdmin' /\ ForcedChange'
    BY DEF TypeOK, AccountTypeOK, KbTypeOK, AccountsLook, LooksAtAccounts, Running, SparesSelf,
           SomeAdmin, ForcedChange, IsAdmin, Member
  <2>2. KbsLook' /\ MadeByTheirRequest'
    BY DEF KbsLook, LooksAtKbs, Running, HasOwner, DocsOf, MadeByTheirRequest
  <2>3. PermissionsAsAsked' /\ DocumentsBelong' /\ UniqueNames'
    BY DEF PermissionsAsAsked, RolesOf, RoleIn, HasOwner, DocumentsBelong, UniqueNames
  <2> QED BY <2>1, <2>2, <2>3
<1> QED BY <1>1, <1>2, <1>3, <1>4 DEF Next

\* The inductive invariant holds in every reachable state.
THEOREM WorkspaceInvariant == Spec => []WorkspaceInductive
<1> QED BY WorkspaceInit, WorkspaceStep, PTL DEF Spec

\* Every row and every request under way has its type.
THEOREM WorkspaceTypes == Spec => []TypeOK
<1>1. WorkspaceInductive => TypeOK
  BY DEF WorkspaceInductive
<1> QED BY <1>1, WorkspaceInvariant, PTL

\* The system keeps an administrator, unless a request committed for somebody
\* who was none any more (admin.py:152).
THEOREM AnAdministratorRemains == Spec => []SomeAdmin
<1>1. WorkspaceInductive => SomeAdmin
  BY DEF WorkspaceInductive
<1> QED BY <1>1, WorkspaceInvariant, PTL

\* A password chosen by an administrator has to be changed (admin.py:204).
THEOREM ResetsForceAChange == Spec => []ForcedChange
<1>1. WorkspaceInductive => ForcedChange
  BY DEF WorkspaceInductive
<1> QED BY <1>1, WorkspaceInvariant, PTL

\* Permission lists are what somebody asked for, with an owner
\* (knowledge_base.py:214).
THEOREM ListsAreAsAsked == Spec => []PermissionsAsAsked
<1>1. WorkspaceInductive => PermissionsAsAsked
  BY DEF WorkspaceInductive
<1> QED BY <1>1, WorkspaceInvariant, PTL

\* Documents do not outlive their knowledge base (deletion.py:112).
THEOREM DocumentsGoWithTheirKb == Spec => []DocumentsBelong
<1>1. WorkspaceInductive => DocumentsBelong
  BY DEF WorkspaceInductive
<1> QED BY <1>1, WorkspaceInvariant, PTL

\* File names are unique in a knowledge base (documents.py:572).
THEOREM NamesAreUnique == Spec => []UniqueNames
<1>1. WorkspaceInductive => UniqueNames
  BY DEF WorkspaceInductive
<1> QED BY <1>1, WorkspaceInvariant, PTL

-----------------------------------------------------------------------------
(***************************************************************************)
(* Avatars.  Between the move of the files and the commit, the disk holds  *)
(* the new files of the requests in between, and no longer their old ones. *)
(***************************************************************************)
AvatarOp(r) == Running(r) /\ req[r].op \in {"avatar", "noAvatar"}
Filed(r) == req[r].phase = "filed"

FilesFollow ==
    torn = {} => \A f \in Files :
        f \in files <=>
            \/ /\ \E u \in Users : AvatarOf(u) = f
               /\ ~\E r \in Requests : Filed(r) /\ req[r].saw.avatar = f
            \/ \E r \in Requests : Filed(r) /\ f \in NewFile(r)

SetsItsOwn ==
    \A r \in Requests : AvatarOp(r) =>
        req[r].set.avatar = IF req[r].op = "avatar" THEN r ELSE None

\* A file that is not yet committed is nobody's, and nobody has loaded it.
NewFilesUnseen ==
    \A p \in Requests : req[p] # Over =>
        /\ \A u \in Users : AvatarOf(u) # p
        /\ \A r \in Requests : AvatarOp(r) => req[r].saw.avatar # p

AvatarsDiffer ==
    \A u \in Users, v \in Users : u # v /\ AvatarOf(u) = AvatarOf(v) => AvatarOf(u) = None

AvatarParts == FilesFollow /\ SetsItsOwn /\ NewFilesUnseen /\ AvatarsDiffer
AvatarInductive == WorkspaceInductive /\ AvatarParts

LEMMA AvatarInit == Init => AvatarInductive
<1> SUFFICES ASSUME Init PROVE AvatarParts
  BY WorkspaceInit DEF AvatarInductive
<1>1. /\ users \in [Users -> {None} \cup StartAccount]
      /\ \A u \in Users, v \in Users : AvatarOf(u) = Old /\ AvatarOf(v) = Old => u = v
      /\ files = {AvatarOf(u) : u \in Users} \ {None}
      /\ req = [r \in Requests |-> Idle]
  BY DEF Init
<1>2. \A r \in Requests : ~Running(r) /\ ~Filed(r)
  BY <1>1 DEF Idle, Running, Filed
<1>3. \A u \in Users : AvatarOf(u) \in {None, Old}
  BY <1>1 DEF AvatarOf, StartAccount
<1>4. FilesFollow
  BY <1>1, <1>2, AccountConstants DEF FilesFollow, Files
<1>5. SetsItsOwn /\ NewFilesUnseen /\ AvatarsDiffer
  BY <1>1, <1>2, <1>3, AccountConstants DEF SetsItsOwn, NewFilesUnseen, AvatarsDiffer, AvatarOp, Files
<1> QED BY <1>4, <1>5 DEF AvatarParts

\* A request that begins, or ends before it moved a file, with no row's avatar
\* and no file changed.
LEMMA AvatarsStay ==
    ASSUME AvatarInductive, NEW r \in Requests, NEW new, OneRequest(r, new),
           \A u \in Users : AvatarOf(u)' = AvatarOf(u),
           UNCHANGED <<files, torn>>,
           ~Filed(r),
           \/ new = Over
           \/ new.phase = "begun" /\ new.op \notin {"avatar", "noAvatar"}
           \/ /\ new.phase = "begun" /\ new.op \in {"avatar", "noAvatar"}
              /\ \E u \in Users : new.saw.avatar = AvatarOf(u)
              /\ new.set.avatar = IF new.op = "avatar" THEN r ELSE None
    PROVE AvatarParts'
<1> USE DEF AvatarInductive, AvatarParts
<1>1. /\ req'[r] = new /\ \A p \in Requests : p # r => req'[p] = req[p]
      /\ req[r] # Over
  BY DEF OneRequest, WorkspaceInductive, TypeOK
<1>2. ~Filed(r)'
  BY <1>1 DEF Filed, Over
<1>3. \A p \in Requests : (Filed(p) <=> Filed(p)') /\ (p # r => req'[p] = req[p])
  BY <1>1, <1>2 DEF Filed
<1>4. FilesFollow'
  BY <1>3 DEF FilesFollow, NewFile, Filed
<1>5. SetsItsOwn'
  BY <1>1 DEF SetsItsOwn, AvatarOp, Running, Over
<1>6. NewFilesUnseen'
  <2> SUFFICES ASSUME NEW p \in Requests, req'[p] # Over
               PROVE /\ \A u \in Users : AvatarOf(u)' # p
                     /\ \A q \in Requests : AvatarOp(q)' => req'[q].saw.avatar # p
    BY DEF NewFilesUnseen
  <2>1. req[p] # Over
    BY <1>1
  <2>2. \A u \in Users : AvatarOf(u)' # p /\ AvatarOf(u) # p
    BY <2>1 DEF NewFilesUnseen
  <2>3. ASSUME NEW q \in Requests, AvatarOp(q)' PROVE req'[q].saw.avatar # p
    <3>1. CASE q = r
      BY <1>1, <2>2, <2>3, <3>1 DEF AvatarOp, Running, Over
    <3>2. CASE q # r
      BY <1>1, <2>1, <2>3, <3>2 DEF NewFilesUnseen, AvatarOp, Running
    <3> QED BY <3>1, <3>2
  <2> QED BY <2>2, <2>3
<1>7. AvatarsDiffer'
  BY DEF AvatarsDiffer
<1> QED BY <1>4, <1>5, <1>6, <1>7

\* A request fails: if it had moved the files, they match no longer.
LEMMA FailAvatars ==
    ASSUME AvatarInductive, NEW r \in Requests, Fail(r)
    PROVE AvatarParts'
<1> USE DEF AvatarInductive, AvatarParts
<1>1. /\ Running(r) /\ OneRequest(r, Over) /\ UNCHANGED <<users, files>>
      /\ \A u \in Users : AvatarOf(u)' = AvatarOf(u)
  BY DEF Fail, OneRequest, Running, Over, AvatarOf
<1>2. CASE ~Filed(r)
  BY <1>1, <1>2, AvatarsStay DEF Fail, Filed
<1>3. CASE Filed(r)
  <2>1. torn' # {}
    BY <1>3 DEF Fail, Filed
  <2>2. /\ req'[r] = Over /\ \A p \in Requests : p # r => req'[p] = req[p]
        /\ req[r] # Over
    BY <1>1 DEF OneRequest, WorkspaceInductive, TypeOK
  <2>3. SetsItsOwn' /\ NewFilesUnseen'
    BY <1>1, <2>2 DEF SetsItsOwn, NewFilesUnseen, AvatarOp, Running, Over
  <2>4. AvatarsDiffer'
    BY <1>1 DEF AvatarsDiffer
  <2> QED BY <2>1, <2>3, <2>4 DEF FilesFollow
<1> QED BY <1>2, <1>3

\* The files are moved: what the request saw goes, and no request in between
\* has made that file.
LEMMA SwapAvatars ==
    ASSUME AvatarInductive, NEW r \in Requests, SwapFiles(r)
    PROVE AvatarParts'
<1> USE DEF AvatarInductive, AvatarParts
<1>1. /\ AvatarOp(r) /\ req[r].phase = "begun" /\ UNCHANGED <<users, torn>>
      /\ files' = (files \ OldFile(r)) \cup NewFile(r)
      /\ req' = [req EXCEPT ![r].phase = "filed"]
  BY DEF SwapFiles, AvatarOp, Running
<1>2. req[r] \in Asks({"begun", "filed"}, {"avatar", "noAvatar"}, Users, Account,
                      [avatar: Requests \cup {None}])
  BY <1>1, KindsOfRequests DEF AvatarOp, AccountRequest, KbRequest, Asks, WorkspaceInductive
<1>3. /\ req'[r].phase = "filed" /\ req'[r].op = req[r].op /\ req'[r].saw = req[r].saw
      /\ req'[r].set = req[r].set /\ req'[r] # Over /\ req[r] # Over
      /\ \A p \in Requests : p # r => req'[p] = req[p]
  BY <1>1, <1>2 DEF Asks, WorkspaceInductive, TypeOK, Over
<1>4. /\ \A p \in Requests : AvatarOp(p)' <=> AvatarOp(p)
      /\ \A p \in Requests : req'[p] = Over <=> req[p] = Over
      /\ \A p \in Requests : AvatarOp(p) => /\ req'[p].saw = req[p].saw /\ req'[p].set = req[p].set
                                            /\ req'[p].op = req[p].op
  BY <1>1, <1>3 DEF AvatarOp, Running
<1>5. SetsItsOwn' /\ NewFilesUnseen' /\ AvatarsDiffer'
  BY <1>1, <1>4 DEF SetsItsOwn, NewFilesUnseen, AvatarsDiffer, AvatarOf
<1>6. FilesFollow'
  <2> SUFFICES ASSUME torn = {}, NEW f \in Files
               PROVE f \in files' <=>
                       \/ /\ \E u \in Users : AvatarOf(u) = f
                          /\ ~\E q \in Requests : Filed(q)' /\ req'[q].saw.avatar = f
                       \/ \E q \in Requests : Filed(q)' /\ f \in NewFile(q)'
    BY <1>1 DEF FilesFollow, AvatarOf
  <2>1. \A q \in Requests : /\ Filed(q)' <=> Filed(q) \/ q = r
                            /\ Filed(q) \/ q = r => req'[q].saw = req[q].saw
                            /\ Filed(q) \/ q = r => NewFile(q)' = NewFile(q)
    BY <1>1, <1>3 DEF Filed, NewFile
  <2>2. f \in files <=>
          \/ /\ \E u \in Users : AvatarOf(u) = f
             /\ ~\E q \in Requests : Filed(q) /\ req[q].saw.avatar = f
          \/ \E q \in Requests : Filed(q) /\ f \in NewFile(q)
    BY DEF FilesFollow
  <2>3. f \in files' <=> (f \in files /\ f # req[r].saw.avatar) \/ f \in NewFile(r)
    BY <1>1 DEF OldFile
  <2>4. f = req[r].saw.avatar => ~\E q \in Requests : Filed(q) /\ f \in NewFile(q)
    <3> SUFFICES ASSUME NEW q \in Requests, Filed(q), q = req[r].saw.avatar PROVE FALSE
      BY DEF NewFile
    <3>1. req[q] # Over
      BY DEF Filed, Over
    <3> QED BY <1>1, <3>1 DEF NewFilesUnseen
  <2> QED BY <2>1, <2>2, <2>3, <2>4
<1> QED BY <1>5, <1>6

\* The row follows: its old avatar was nobody else's.
LEMMA CommitAvatars ==
    ASSUME AvatarInductive, NEW r \in Requests, CommitAvatar(r)
    PROVE AvatarParts'
<1> DEFINE q == req[r]
<1> USE DEF AvatarInductive, AvatarParts
<1>1. /\ Running(r) /\ Filed(r) /\ OneRequest(r, Over) /\ users' = Flushed(r) /\ UNCHANGED files
      /\ torn' = IF users[q.target].avatar # q.saw.avatar THEN torn \cup {q.target} ELSE torn
  BY DEF CommitAvatar, Running, Finish, OneRequest, Over, Filed
<1>a. PICK u \in Users : u = q.target
  BY <1>1, KindsOfRequests DEF WorkspaceInductive, Filed
<1>2. /\ q.op \in {"avatar", "noAvatar"} /\ u = q.target /\ u \in Users /\ users[u] # None
      /\ q.set \in [avatar: Requests \cup {None}]
  BY <1>1, <1>a, KindsOfRequests DEF AccountsLook, LooksAtAccounts, WorkspaceInductive, Filed
<1>3. /\ users' \in [Users -> Account \cup {None}] /\ users'[u] \in Account
      /\ \A c \in Columns : users'[u][c] = IF c \in Written(r) THEN q.set[c] ELSE users[u][c]
      /\ \A v \in Users : v # u => users'[v] = users[v]
  BY <1>1, <1>2, FlushWrites, BodiesAreParts DEF WorkspaceInductive
<1>4. /\ req'[r] = Over /\ \A p \in Requests : p # r => req'[p] = req[p]
      /\ req[r] # Over
  BY <1>1 DEF OneRequest, WorkspaceInductive, TypeOK
<1>5. q.set.avatar = IF q.op = "avatar" THEN r ELSE None
  BY <1>1, <1>2 DEF SetsItsOwn, AvatarOp
<1>6. /\ \A v \in Users : v # u => AvatarOf(v)' = AvatarOf(v)
      /\ AvatarOf(u)' = IF q.set.avatar # q.saw.avatar THEN q.set.avatar ELSE AvatarOf(u)
  <2>1. AvatarOf(u)' = users'[u].avatar /\ AvatarOf(u) = users[u].avatar
    BY <1>2, <1>3, AccountConstants DEF AvatarOf
  <2>2. "avatar" \in Written(r) <=> q.set.avatar # q.saw.avatar
    BY <1>2 DEF Written
  <2>3. \A v \in Users : v # u => AvatarOf(v)' = AvatarOf(v)
    BY <1>3 DEF AvatarOf
  <2> QED BY <1>3, <2>1, <2>2, <2>3 DEF Columns
<1>7. /\ \A p \in Requests : req'[p] # Over => req[p] # Over /\ p # r
      /\ \A p \in Requests : AvatarOp(p)' => AvatarOp(p) /\ req'[p] = req[p]
  BY <1>4 DEF AvatarOp, Running, Over
<1>8. SetsItsOwn'
  BY <1>7 DEF SetsItsOwn
<1>9. NewFilesUnseen'
  BY <1>5, <1>6, <1>7, AccountConstants DEF NewFilesUnseen, Files
\* The new file was nobody's.
<1>10. AvatarsDiffer'
  <2>1. \A v \in Users : AvatarOf(v) # r
    BY <1>4 DEF NewFilesUnseen
  <2> QED BY <1>5, <1>6, <2>1 DEF AvatarsDiffer
<1>11. FilesFollow'
  <2> SUFFICES ASSUME torn' = {}, NEW f \in Files
               PROVE f \in files <=>
                       \/ /\ \E v \in Users : AvatarOf(v)' = f
                          /\ ~\E p \in Requests : Filed(p)' /\ req'[p].saw.avatar = f
                       \/ \E p \in Requests : Filed(p)' /\ f \in NewFile(p)'
    BY <1>1 DEF FilesFollow
  <2>1. torn = {} /\ AvatarOf(u) = q.saw.avatar
    BY <1>1, <1>2 DEF AvatarOf
  <2>2. f \in files <=>
          \/ /\ \E v \in Users : AvatarOf(v) = f
             /\ ~\E p \in Requests : Filed(p) /\ req[p].saw.avatar = f
          \/ \E p \in Requests : Filed(p) /\ f \in NewFile(p)
    BY <2>1 DEF FilesFollow
  <2>3. \A p \in Requests : /\ Filed(p)' <=> Filed(p) /\ p # r
                            /\ p # r => req'[p] = req[p] /\ NewFile(p)' = NewFile(p)
    BY <1>4 DEF Filed, Over, NewFile
  <2>4. AvatarOf(u)' = q.set.avatar /\ f # None
    BY <1>6, <2>1, AccountConstants
  <2>5. NewFile(r) = IF q.op = "avatar" THEN {r} ELSE {}
    BY DEF NewFile
  <2>6. \A p \in Requests : Filed(p) => /\ p = r \/ req[p].saw.avatar # r
                                        /\ req[p].saw.avatar # r
    <3> SUFFICES ASSUME NEW p \in Requests, Filed(p) PROVE req[p].saw.avatar # r
      OBVIOUS
    <3>1. AvatarOp(p)
      BY KindsOfRequests DEF AvatarOp, Running, Filed, WorkspaceInductive
    <3> QED BY <1>4, <3>1 DEF NewFilesUnseen
  <2>7. CASE f = r
    <3>1. \A v \in Users : AvatarOf(v) # r
      BY <1>4 DEF NewFilesUnseen
    <3>2. \A p \in Requests : p # r => r \notin NewFile(p)
      BY DEF NewFile
    <3>3. f \in files <=> q.op = "avatar"
      BY <1>1, <2>2, <2>5, <2>7, <3>1, <3>2
    <3>4. q.op = "avatar" <=> \E v \in Users : AvatarOf(v)' = r
      BY <1>2, <1>5, <1>6, <2>4, <2>7, <3>1
    <3> QED BY <2>3, <2>6, <2>7, <3>2, <3>3, <3>4
  <2>8. CASE f # r /\ f = q.saw.avatar
    <3>1. ~\E v \in Users : AvatarOf(v)' = f
      BY <1>5, <1>6, <2>1, <2>4, <2>8, <1>2 DEF AvatarsDiffer
    <3> QED BY <1>1, <2>2, <2>3, <2>5, <2>8, <3>1
  <2>9. CASE f # r /\ f # q.saw.avatar
    <3>1. (\E v \in Users : AvatarOf(v)' = f) <=> (\E v \in Users : AvatarOf(v) = f)
      BY <1>5, <1>6, <2>1, <2>4, <2>9
    <3> QED BY <1>1, <2>2, <2>3, <2>5, <2>9, <3>1
  <2> QED BY <2>7, <2>8, <2>9
<1> QED BY <1>8, <1>9, <1>10, <1>11

\* The other commits leave the avatars alone.
LEMMA OtherCommitsAvatars ==
    ASSUME AvatarInductive, NEW r \in Requests, CommitUser(r) \/ CommitCreateUser(r)
    PROVE AvatarParts'
<1> DEFINE q == req[r]
           u == req[r].target
<1> USE DEF AvatarInductive
<1>1. OneRequest(r, Over) /\ ~Filed(r) /\ UNCHANGED <<files, torn>> /\ Running(r) /\ q.phase = "begun"
  BY DEF CommitUser, CommitCreateUser, Finish, OneRequest, Over, Filed, Running
<1>2. CASE CommitUser(r)
  <2>1. q.op \in {"update", "disable", "reset", "change"} /\ users' = Flushed(r)
    BY <1>2 DEF CommitUser
  <2>2. /\ u \in Users /\ users[u] # None
        /\ q.set \in Bodies \cup {[active |-> FALSE], ForcedPassword, OwnPassword}
    BY <1>1, <2>1, KindsOfRequests DEF AccountsLook, LooksAtAccounts, WorkspaceInductive
  <2>3. "avatar" \notin Written(r)
    BY <2>2 DEF Written, Bodies, ForcedPassword, OwnPassword
  <2>4. /\ users'[u] \in Account /\ users'[u].avatar = users[u].avatar
        /\ \A v \in Users : v # u => users'[v] = users[v]
    BY <2>1, <2>2, <2>3, FlushWrites, BodiesAreParts DEF WorkspaceInductive, Columns
  <2>5. \A v \in Users : AvatarOf(v)' = AvatarOf(v)
    BY <2>2, <2>4, AccountConstants DEF AvatarOf
  <2> QED BY <1>1, <2>5, AvatarsStay
<1>3. CASE CommitCreateUser(r)
  <2>1. users[u] = None /\ users' = [users EXCEPT ![u] = NewAccount(q.set.role)]
    BY <1>3 DEF CommitCreateUser
  <2>2. \A v \in Users : AvatarOf(v)' = AvatarOf(v)
    BY <2>1 DEF AvatarOf, NewAccount, WorkspaceInductive, TypeOK, AccountTypeOK
  <2> QED BY <1>1, <2>2, AvatarsStay
<1> QED BY <1>2, <1>3

LEMMA AvatarStep == AvatarInductive /\ [Next]_vars => AvatarInductive'
<1> SUFFICES ASSUME AvatarInductive, [Next]_vars PROVE AvatarParts'
  BY WorkspaceStep DEF AvatarInductive
<1>1. ASSUME NEW r \in Requests, NEW new, Begin(r, new), new.phase = "begun",
             \/ new.op \notin {"avatar", "noAvatar"}
             \/ \E u \in Users : /\ new.saw.avatar = AvatarOf(u)
                                 /\ new.set.avatar = IF new.op = "avatar" THEN r ELSE None
      PROVE AvatarParts'
  <2>1. OneRequest(r, new) /\ ~Filed(r) /\ UNCHANGED <<users, files, torn>>
    BY <1>1 DEF Begin, OneRequest, Idle, Over, Filed
  <2>2. \A u \in Users : AvatarOf(u)' = AvatarOf(u)
    BY <2>1 DEF AvatarOf
  <2> QED BY <1>1, <2>1, <2>2, AvatarsStay
<1>2. ASSUME AccountNext PROVE AvatarParts'
  <2>1. ASSUME NEW r \in Requests, NEW a \in Users, NEW u \in Users,
               \/ \E set \in Bodies : BeginUpdateUser(r, a, u, set)
               \/ BeginDisableUser(r, a, u) \/ BeginResetPassword(r, a, u)
               \/ \E role \in SystemRoles : BeginCreateUser(r, a, u, role)
               \/ BeginChangePassword(r, u)
        PROVE AvatarParts'
    <3>1. \E new : Begin(r, new) /\ new.phase = "begun" /\ new.op \notin {"avatar", "noAvatar"}
      <4>1. \A op \in {"update", "disable", "reset", "create", "change"} : \A b, saw, set :
              /\ Begun(op, b, u, saw, set).phase = "begun"
              /\ Begun(op, b, u, saw, set).op \notin {"avatar", "noAvatar"}
        BY DEF Begun
      <4> QED BY <2>1, <4>1 DEF BeginUpdateUser, BeginDisableUser, BeginResetPassword,
                                BeginCreateUser, BeginChangePassword
    <3> QED BY <1>1, <3>1
  <2>2. ASSUME NEW r \in Requests, NEW u \in Users, NEW op \in {"avatar", "noAvatar"},
               BeginAvatar(r, u, op)
        PROVE AvatarParts'
    <3> DEFINE new == Begun(op, u, u, users[u], [avatar |-> IF op = "avatar" THEN r ELSE None])
    <3>1. Begin(r, new) /\ users[u] # None
      BY <2>2 DEF BeginAvatar, Member
    <3>2. /\ new.phase = "begun" /\ new.op = op /\ new.saw.avatar = AvatarOf(u)
          /\ new.set.avatar = IF op = "avatar" THEN r ELSE None
      BY <3>1 DEF Begun, AvatarOf
    <3> HIDE DEF new
    <3> QED BY <1>1, <3>1, <3>2
  <2> QED BY <1>2, <2>1, <2>2, SwapAvatars, CommitAvatars, OtherCommitsAvatars DEF AccountNext
<1>3. ASSUME KbNext PROVE AvatarParts'
  <2>1. PICK r \in Requests :
          \/ \E a \in Users, op \in {"createKb", "permissions", "upload", "deleteKb", "deleteDoc"} :
                \E k, saw, set : Begin(r, Begun(op, a, k, saw, set))
          \/ CommitCreateKb(r) \/ CommitPermissions(r) \/ CommitUpload(r)
          \/ CommitDeleteDocument(r) \/ CommitDeleteKb(r)
    BY <1>3 DEF KbNext, BeginCreateKb, BeginPermissions, BeginUpload, BeginDeleteKb,
                BeginDeleteDocument, BeginKb
  <2>2. CASE \E a \in Users, op \in {"createKb", "permissions", "upload", "deleteKb", "deleteDoc"} :
                \E k, saw, set : Begin(r, Begun(op, a, k, saw, set))
    <3>1. \E new : Begin(r, new) /\ new.phase = "begun" /\ new.op \notin {"avatar", "noAvatar"}
      BY <2>2 DEF Begun
    <3> QED BY <1>1, <3>1
  <2>3. CASE \/ CommitCreateKb(r) \/ CommitPermissions(r) \/ CommitUpload(r)
             \/ CommitDeleteDocument(r) \/ CommitDeleteKb(r)
    <3>1. req[r].phase = "begun" /\ Finish(r) /\ UNCHANGED <<users, files, torn>>
      BY <2>3 DEF CommitCreateKb, CommitPermissions, CommitUpload, CommitDeleteDocument,
                  CommitDeleteKb
    <3>2. OneRequest(r, Over) /\ ~Filed(r) /\ \A u \in Users : AvatarOf(u)' = AvatarOf(u)
      BY <3>1 DEF Finish, OneRequest, Over, Filed, AvatarOf
    <3> QED BY <3>1, <3>2, AvatarsStay
  <2> QED BY <2>1, <2>2, <2>3
<1>4. CASE UNCHANGED vars
  BY <1>4 DEF vars, accountVars, AvatarInductive, AvatarParts, FilesFollow, SetsItsOwn,
              NewFilesUnseen, AvatarsDiffer, AvatarOp, Running, Filed, NewFile, AvatarOf
<1> QED BY <1>2, <1>3, <1>4, FailAvatars DEF Next

\* Between two avatar requests the disk holds the avatars the rows name and
\* nothing else, unless two of a user's requests overlapped or one failed after
\* it had moved the files (user.py:115).
THEOREM FilesAreTheAvatars == Spec => []AvatarsMatchFiles
<1>1. AvatarInductive => AvatarsMatchFiles
  <2> SUFFICES ASSUME AvatarInductive, torn = {}, ~\E u \in Users : SwapUnderWay(u)
               PROVE files = {AvatarOf(u) : u \in Users} \ {None}
    BY DEF AvatarsMatchFiles
  <2>1. \A r \in Requests : ~Filed(r)
    BY KindsOfRequests DEF SwapUnderWay, Filed, Running, AvatarInductive, WorkspaceInductive
  <2>2. \A f \in Files : f \in files <=> \E u \in Users : AvatarOf(u) = f
    BY <2>1 DEF AvatarInductive, AvatarParts, FilesFollow
  <2>3. files \subseteq Files /\ \A u \in Users : AvatarOf(u) \in Files \cup {None}
    BY DEF AvatarInductive, WorkspaceInductive, TypeOK, AccountTypeOK, AvatarOf, Account
  <2> QED BY <2>2, <2>3, AccountConstants
<1> QED BY <1>1, AvatarInit, AvatarStep, PTL DEF Spec
=============================================================================
