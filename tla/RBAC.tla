--------------------------------- MODULE RBAC ---------------------------------
(***************************************************************************)
(* The permission cache of the role based access control (auth/rbac.go).   *)
(* A role's permissions are known by their revision; a check reads the     *)
(* cache, the user's row and the role, and fills the cache, one lock or    *)
(* statement after the other.                                              *)
(***************************************************************************)
EXTENDS Permissions

CONSTANTS
  People,     \* users
  Checks,     \* checks at a time
  MaxUpdates  \* bound: changes of roles

Custom == "custom"  \* a role added at run time; only such a role can change
Roles == {"user", Custom}
Nothing == <<>>

VARIABLES
  roleOf,    \* role column of each user
  revision,  \* role -> its permissions, by revision; 0: no such role
  perms,     \* the cache: user -> <<role, revision>>
  check,     \* each check: [pc, user, role, found]
  had        \* history: what the user's role granted, ever

rbacVars == <<roleOf, revision, perms, check, had>>
NoCheck == [pc |-> "idle", user |-> Nothing, role |-> "", found |-> Nothing]

Granted(u, r, v) == <<r[u], v[r[u]]>>

RBACInit ==
  /\ roleOf = [u \in People |-> "user"]
  /\ revision = [r \in Roles |-> IF r = Custom THEN 0 ELSE 1]
  /\ perms = [u \in People |-> Nothing]
  /\ check = [c \in Checks |-> NoCheck]
  /\ had = [u \in People |-> {<<"user", 1>>}]

(* What is had after a step.                                                 *)
Remember == had' = [u \in People |-> had[u] \cup {Granted(u, roleOf', revision')}]

RBACTypeOK ==
  /\ roleOf \in [People -> Roles] /\ revision \in [Roles -> Nat]
  /\ \A c \in Checks : check[c].pc \in {"idle", "user", "role", "copy", "store"}

(* updateUser: the role column; the cache is not told.                       *)
SetRole(u) ==
  /\ \E r \in Roles \ {roleOf[u]} : roleOf' = [roleOf EXCEPT ![u] = r]
  /\ UNCHANGED <<revision, perms, check>> /\ Remember

AddRole ==
  /\ revision[Custom] = 0
  /\ revision' = [revision EXCEPT ![Custom] = 1]
  /\ UNCHANGED <<roleOf, perms, check>> /\ Remember

(* UpdateRole: a custom role only, and the cache is emptied.                 *)
UpdateRole ==
  /\ revision[Custom] \in 1 .. MaxUpdates
  /\ revision' = [revision EXCEPT ![Custom] = @ + 1]
  /\ perms' = [u \in People |-> Nothing]
  /\ UNCHANGED <<roleOf, check>> /\ Remember

InvalidateUserCache(u) ==
  /\ perms[u] # Nothing
  /\ perms' = [perms EXCEPT ![u] = Nothing]
  /\ UNCHANGED <<roleOf, revision, check>> /\ Remember

(* getUserPermissions: the cache first.                                      *)
getUserPermissions(c) ==
  /\ check[c].pc = "idle"
  /\ \E u \in People :
       /\ perms[u] = Nothing
       /\ check' = [check EXCEPT ![c] = [NoCheck EXCEPT !.pc = "user", !.user = u]]
  /\ UNCHANGED <<roleOf, revision, perms>> /\ Remember

GetUserRole(c) ==
  /\ check[c].pc = "user"
  /\ check' = [check EXCEPT ![c].pc = "role", ![c].role = roleOf[check[c].user]]
  /\ UNCHANGED <<roleOf, revision, perms>> /\ Remember

(* No such role is an error.                                                 *)
GetRole(c) ==
  /\ check[c].pc = "role"
  /\ check' = IF revision[check[c].role] = 0 THEN [check EXCEPT ![c] = NoCheck]
              ELSE [check EXCEPT ![c].pc = "copy"]
  /\ UNCHANGED <<roleOf, revision, perms>> /\ Remember

(* The role's permissions are copied after the lock was released.            *)
CopyPermissions(c) ==
  /\ check[c].pc = "copy"
  /\ check' = [check EXCEPT ![c].pc = "store",
                            ![c].found = <<check[c].role, revision[check[c].role]>>]
  /\ UNCHANGED <<roleOf, revision, perms>> /\ Remember

StorePermissions(c) ==
  /\ check[c].pc = "store"
  /\ perms' = [perms EXCEPT ![check[c].user] = check[c].found]
  /\ check' = [check EXCEPT ![c] = NoCheck]
  /\ UNCHANGED <<roleOf, revision>> /\ Remember

RBACNext ==
  \/ AddRole \/ UpdateRole
  \/ \E u \in People : SetRole(u) \/ InvalidateUserCache(u)
  \/ \E c \in Checks : getUserPermissions(c) \/ GetUserRole(c) \/ GetRole(c)
                        \/ CopyPermissions(c) \/ StorePermissions(c)

-----------------------------------------------------------------------------
(* Whatever the cache grants, a role of the user granted at some time after  *)
(* the role was read: a check that mixes the row of one moment with the role *)
(* of another cannot cache what the user never had, except a revision of the *)
(* role that came after he lost it.                                          *)
RoleCached ==
  \A u \in People : perms[u] # Nothing =>
    \/ perms[u] \in had[u]
    \/ \E g \in had[u] : g[1] = perms[u][1] /\ perms[u][2] > g[2]
=============================================================================
