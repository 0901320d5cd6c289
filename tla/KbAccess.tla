------------------------------ MODULE KbAccess ------------------------------
(***************************************************************************)
(* Knowledge bases, their permission rows and their documents' rows, and   *)
(* the requests that change them.  A permission update replaces the whole  *)
(* list: rows are updated, inserted and deleted one by one against what    *)
(* the request loaded.  A hard deletion removes what it has listed, with   *)
(* foreign-key checks off for the parent row.                              *)
(***************************************************************************)
EXTENDS Accounts

CONSTANTS
    KB0, Doc0,   \* a knowledge base and a document from the start
    Names        \* file names

KBs == {KB0} \cup Requests     \* a row is named by the request that makes it
Docs == {Doc0} \cup Requests
KbRoles == {"owner", "editor", "viewer"}
Permission == [role: KbRoles, id: {Old} \cup Requests]
Document == [kb: KBs, name: Names]
Lists == [Users -> KbRoles \cup {None}]

ASSUME KbConstants ==
    /\ {KB0, Doc0} \cap (Requests \cup {None}) = {}
    /\ None \notin KbRoles \cup Permission \cup Document

VARIABLES
    kbs,      \* rows of knowledge_bases
    perms,    \* rows of knowledge_base_permissions: role, and the row's identity
    docs,     \* rows of documents: knowledge base and file name
    asked,    \* history: the list the last permission update asked for
    merged,   \* history: knowledge bases whose list was written over other rows than loaded
    blind,    \* history: documents stored over other rows than the name check saw
    orphaned  \* history: documents stored while their knowledge base was being deleted

kbVars == <<kbs, perms, docs, asked, merged, blind, orphaned>>

KbRequest ==
    UNION {Asks({"begun"}, {"createKb"}, Requests, {None}, {None}),
           Asks({"begun"}, {"permissions"}, KBs, [Users -> Permission \cup {None}], Lists),
           Asks({"begun"}, {"upload"}, KBs, SUBSET Docs, Document),
           Asks({"begun"}, {"deleteDoc"}, Docs, {None}, {None}),
           Asks({"begun"}, {"deleteKb"}, KBs, SUBSET Docs, {None})}

KbTypeOK ==
    /\ kbs \in SUBSET KBs
    /\ perms \in [KBs -> [Users -> Permission \cup {None}]]
    /\ docs \in [Docs -> Document \cup {None}]
    /\ asked \in [KBs -> Lists]
    /\ merged \in SUBSET KBs
    /\ blind \in SUBSET Docs
    /\ orphaned \in SUBSET Docs

Nobody == [u \in Users |-> None]
RoleIn(rows, u) == IF rows[u] = None THEN None ELSE rows[u].role
RolesOf(rows) == [u \in Users |-> RoleIn(rows, u)]
DocsOf(k) == {d \in Docs : docs[d] # None /\ docs[d].kb = k}

-----------------------------------------------------------------------------
(***************************************************************************)
(* The dependencies of the routes.                                         *)
(***************************************************************************)
\* _require_role, require_document_role: an administrator passes always.
Allowed(u, k, roles) ==
    /\ k \in kbs /\ Member(u)
    /\ IsAdmin(u) \/ RoleIn(perms[k], u) \in roles

-----------------------------------------------------------------------------
(***************************************************************************)
(* create_knowledge_base and _apply_permission_update.                     *)
(***************************************************************************)
BeginKb(r, a, op, k, saw, set) ==
    Begin(r, Begun(op, a, k, saw, set)) /\ UNCHANGED kbVars

BeginCreateKb(r, a) ==
    IsAdmin(a) /\ BeginKb(r, a, "createKb", r, None, None)

CreatorRole == "owner"

CommitCreateKb(r) ==
    LET a == req[r].actor
        mine == [u \in Users |-> IF u = a THEN "owner" ELSE None]
    IN  /\ req[r].phase = "begun" /\ req[r].op = "createKb"
        /\ kbs' = kbs \cup {r}
        /\ perms' = [perms EXCEPT ![r][a] = [role |-> CreatorRole, id |-> r]]
        /\ asked' = [asked EXCEPT ![r] = mine]
        /\ Finish(r)
        /\ UNCHANGED <<users, files, excused, torn, docs, merged, blind, orphaned>>

HasOwner(list) == \E u \in Users : list[u] = "owner"

BeginPermissions(r, a, k, list) ==
    /\ IsAdmin(a) /\ k \in kbs
    /\ \A u \in Users : users[u] = None => list[u] = None
    /\ HasOwner(list)
    /\ BeginKb(r, a, "permissions", k, perms[k], list)

\* Mutation: rows that are not in the new list are kept.
KeepsAbsent(loaded, current, wanted, r) == current

\* A row the list leaves out is deleted by its identity, or is gone already.
AfterDelete(loaded, current, wanted, r) ==
    IF loaded # None /\ current # None /\ current.id = loaded.id THEN None ELSE current

\* One user's row: updated when its role changes, inserted when there was none,
\* deleted when the list leaves it out.
AfterUpdate(loaded, current, wanted, r) ==
    IF wanted = None THEN AfterDelete(loaded, current, wanted, r)
    ELSE IF loaded = None THEN [role |-> wanted, id |-> r]
    ELSE IF loaded.role = wanted THEN current
    ELSE [role |-> wanted, id |-> current.id]

\* The flush fails: UPDATE of a row that is gone, INSERT of one that is there
\* (uq_kb_permission_user), or INSERT under a knowledge base that is gone.
Conflicts(r) ==
    LET k == req[r].target
        loaded == req[r].saw
        list == req[r].set
    IN \E u \in Users : list[u] # None /\
        IF loaded[u] = None THEN perms[k][u] # None \/ k \notin kbs
        ELSE loaded[u].role # list[u] /\ (perms[k][u] = None \/ perms[k][u].id # loaded[u].id)

CommitPermissions(r) ==
    LET k == req[r].target
        loaded == req[r].saw
        list == req[r].set
    IN  /\ req[r].phase = "begun" /\ req[r].op = "permissions"
        /\ ~Conflicts(r)
        /\ perms' = [perms EXCEPT ![k] =
                       [u \in Users |-> AfterUpdate(loaded[u], @[u], list[u], r)]]
        /\ asked' = [asked EXCEPT ![k] = list]
        /\ merged' = IF loaded = perms[k] THEN merged \ {k} ELSE merged \cup {k}
        /\ Finish(r)
        /\ UNCHANGED <<users, files, excused, torn, kbs, docs, blind, orphaned>>

-----------------------------------------------------------------------------
(***************************************************************************)
(* Documents.                                                              *)
(***************************************************************************)
\* Mutation: the name is not looked for.
AnyName(k, n) == TRUE

\* _filter_duplicate_upload_files
NewName(k, n) == \A d \in DocsOf(k) : docs[d].name # n

Row(k, n) == [kb |-> k, name |-> n]

BeginUpload(r, u, k, n) ==
    /\ Allowed(u, k, {"editor", "owner"})
    /\ NewName(k, n)
    /\ BeginKb(r, u, "upload", k, DocsOf(k), Row(k, n))

BeingDeleted(k) ==
    \E q \in Requests : req[q].phase = "begun" /\ req[q].op = "deleteKb" /\ req[q].target = k

\* The insert needs its knowledge base's row (foreign key).
CommitUpload(r) ==
    LET k == req[r].target IN
    /\ req[r].phase = "begun" /\ req[r].op = "upload"
    /\ k \in kbs
    /\ docs' = [docs EXCEPT ![r] = req[r].set]
    /\ blind' = IF req[r].saw # DocsOf(k) THEN blind \cup {r} ELSE blind
    /\ orphaned' = IF BeingDeleted(k) THEN orphaned \cup {r} ELSE orphaned
    /\ Finish(r)
    /\ UNCHANGED <<users, files, excused, torn, kbs, perms, asked, merged>>

BeginDeleteDocument(r, u, d) ==
    /\ docs[d] # None
    /\ Allowed(u, docs[d].kb, {"owner"})
    /\ BeginKb(r, u, "deleteDoc", d, None, None)

CommitDeleteDocument(r) ==
    /\ req[r].phase = "begun" /\ req[r].op = "deleteDoc"
    /\ docs' = [docs EXCEPT ![req[r].target] = None]
    /\ Finish(r)
    /\ UNCHANGED <<users, files, excused, torn, kbs, perms, asked, merged, blind, orphaned>>

\* hard_delete_knowledge_base lists the documents first ...
BeginDeleteKb(r, a, k) ==
    /\ IsAdmin(a) /\ k \in kbs
    /\ BeginKb(r, a, "deleteKb", k, DocsOf(k), None)

\* Mutation: the knowledge base goes, its documents stay.
ListedNone(r) == {}

ListedDocs(r) == req[r].saw

\* ... and deletes them, the permissions and the knowledge base.
CommitDeleteKb(r) ==
    LET k == req[r].target IN
    /\ req[r].phase = "begun" /\ req[r].op = "deleteKb"
    /\ docs' = [d \in Docs |-> IF d \in ListedDocs(r) THEN None ELSE docs[d]]
    /\ perms' = [perms EXCEPT ![k] = Nobody]
    /\ asked' = [asked EXCEPT ![k] = Nobody]
    /\ kbs' = kbs \ {k}
    /\ Finish(r)
    /\ UNCHANGED <<users, files, excused, torn, merged, blind, orphaned>>

-----------------------------------------------------------------------------
KbNext ==
    \E r \in Requests :
        \/ \E a \in Users :
            \/ BeginCreateKb(r, a)
            \/ \E k \in kbs :
                \/ \E list \in Lists : BeginPermissions(r, a, k, list)
                \/ \E n \in Names : BeginUpload(r, a, k, n)
                \/ BeginDeleteKb(r, a, k)
            \/ \E d \in Docs : BeginDeleteDocument(r, a, d)
        \/ CommitCreateKb(r)
        \/ CommitPermissions(r)
        \/ CommitUpload(r)
        \/ CommitDeleteDocument(r)
        \/ CommitDeleteKb(r)

-----------------------------------------------------------------------------
\* The permissions of a knowledge base are the list somebody asked for, owner
\* included, unless two updates overlapped: each is written row by row over the
\* rows the other left (knowledge_base.py:225-239), and the refusal to remove
\* the last owner (:222) looks at one list only.
PermissionsAsAsked ==
    \A k \in KBs : k \in kbs \ merged =>
        RolesOf(perms[k]) = asked[k] /\ HasOwner(asked[k])

\* No document outlives its knowledge base, unless it was stored after the
\* deletion had listed the documents (deletion.py:112, 131): nobody can reach
\* or delete such a document any more.
DocumentsBelong == \A d \in Docs : docs[d] # None => docs[d].kb \in kbs \/ d \in orphaned

\* Two documents of a knowledge base have different file names, unless their
\* uploads overlapped (documents.py:572 looks, :209 stores; nothing is unique).
UniqueNames ==
    \A d \in Docs, e \in Docs :
        d # e /\ docs[d] # None /\ docs[e] = docs[d] => d \in blind \/ e \in blind
=============================================================================
