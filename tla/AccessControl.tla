---------------------------- MODULE AccessControl -----------------------------
(***************************************************************************)
(* Who may talk to the server: users by login, the permission cache, the   *)
(* permissions of API tokens, and the peers of the federation.  They share *)
(* no state (the cache and the tokens see the role column only), so a      *)
(* behaviour follows one of them.                                          *)
(***************************************************************************)
EXTENDS AuthService, RBAC, Federation

VARIABLES
  part,       \* the part a behaviour follows
  validPerms  \* of a GenerateToken: the user's role and what the token gets

access == <<part, validPerms, authVars, rbacVars, federation>>

Init ==
  /\ part \in {"login", "rbac", "token", "peers"} /\ validPerms = None
  /\ AuthInit /\ RBACInit /\ FederationInit
  /\ part # "login" => row = [u \in Users |-> None]

(* GenerateToken up to the permissions: a request of which nothing is valid  *)
(* is refused.  (The token itself is never made: generateRawToken wants 45   *)
(* characters of the 43 it has encoded.)                                     *)
GenerateToken ==
  /\ \E role \in RoleNames, asked \in {{}} \cup {{p} : p \in Requestable} :
       LET valid == filterValidPermissions(asked, getUserAvailablePermissions(role))
       IN  /\ valid # {}
           /\ validPerms' = [role |-> role, permissions |-> valid]

Next ==
  \/ part = "login" /\ AuthNext /\ UNCHANGED <<part, validPerms, rbacVars, federation>>
  \/ part = "rbac" /\ RBACNext /\ UNCHANGED <<part, validPerms, authVars, federation>>
  \/ part = "token" /\ GenerateToken /\ UNCHANGED <<part, authVars, rbacVars, federation>>
  \/ part = "peers" /\ FederationNext /\ UNCHANGED <<part, validPerms, authVars, rbacVars>>

Spec == Init /\ [][Next]_access

-----------------------------------------------------------------------------
(* The state is well typed, sessions are justified, and the cache holds      *)
(* nothing its user never had.                                               *)
AccessInv == AuthTypeOK /\ RBACTypeOK /\ SessionJustified /\ RoleCached

(* For every role and every request of GenerateToken: whatever HasPermission *)
(* finds in the token, Authorize finds in the role of its user.  The lists   *)
(* of permissions are written by hand in two files, and compared by two      *)
(* different rules.                                                          *)
TokenWithinRole ==
  validPerms # None =>
    \A r \in Resources, a \in {"read", "write", "delete", "manage"}, s \in Scopes :
      HasPermission(validPerms.permissions, r, a, s)
        => Authorize(seedDefaultRoles[validPerms.role], r, a, s)
=============================================================================
