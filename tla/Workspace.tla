----------------------------- MODULE Workspace ------------------------------
(***************************************************************************)
(* Accounts and knowledge bases together: every request of either kind     *)
(* runs beside every other.                                                *)
(***************************************************************************)
EXTENDS KbAccess

vars == <<accountVars, kbVars>>

\* An account between two requests: the passwords are the users' own choice.
StartAccount == {row \in Account : row.active /\ row.chosenBy = "self" /\ row.avatar \in {None, Old}}

\* Any state of a running system between two requests: one administrator, users
\* who may be administrators too, and one knowledge base with an owner.
Init ==
    /\ users \in [Users -> {None} \cup StartAccount]
    /\ \E u \in Users : IsAdmin(u)
    /\ \A u \in Users, v \in Users : AvatarOf(u) = Old /\ AvatarOf(v) = Old => u = v
    /\ files = {AvatarOf(u) : u \in Users} \ {None}
    /\ req = [r \in Requests |-> Idle]
    /\ excused = {} /\ torn = {} /\ usurped = FALSE
    /\ kbs = {KB0}
    /\ asked \in [KBs -> Lists]
    /\ HasOwner(asked[KB0])
    /\ \A u \in Users : users[u] = None => asked[KB0][u] = None
    /\ \A k \in Requests : asked[k] = Nobody
    /\ perms = [k \in KBs |-> [u \in Users |->
                  IF asked[k][u] = None THEN None ELSE [role |-> asked[k][u], id |-> Old]]]
    /\ docs \in [Docs -> [kb: {KB0}, name: Names] \cup {None}]
    /\ \A d \in Requests : docs[d] = None
    /\ merged = {} /\ blind = {} /\ orphaned = {}

Next ==
    \/ AccountNext /\ UNCHANGED kbVars
    \/ KbNext
    \/ \E r \in Requests : Fail(r) /\ UNCHANGED kbVars

Spec == Init /\ [][Next]_vars

TypeOK ==
    /\ AccountTypeOK
    /\ KbTypeOK
    /\ req \in [Requests -> {Idle, Over} \cup AccountRequest \cup KbRequest]
=============================================================================
