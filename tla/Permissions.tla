----------------------------- MODULE Permissions ------------------------------
(***************************************************************************)
(* The two ways a permission is written: as a triple of the role based     *)
(* access control (auth/rbac.go), and as the colon-separated string of an  *)
(* API token (auth/token.go), here the sequence of its segments.           *)
(***************************************************************************)
EXTENDS Naturals, Sequences, SequencesExt

Resources == {"file", "folder", "share", "user", "system"}
Scopes == {"own", "group", "all"}
Permission(r, a, s) == [resource |-> r, action |-> a, scope |-> s]

(* own < group < all; a scope nobody knows has level 0.                      *)
scopeLevels(s) == CASE s = "own" -> 1 [] s = "group" -> 2 [] s = "all" -> 3 [] OTHER -> 0

(* Mutant: a permission is good for its own scope only.                      *)
MatchesExact(p, resource, action, scope) ==
  p.resource = resource /\ p.action \in {action, "manage"} /\ p.scope = scope

(* manage implies all actions, a scope the smaller ones.                     *)
Matches(p, resource, action, scope) ==
  /\ p.resource = resource
  /\ p.action \in {action, "manage"}
  /\ scopeLevels(p.scope) >= scopeLevels(scope)

RoleNames == {"admin", "user", "guest"}

seedDefaultRoles ==
  [admin |-> {Permission(r, "manage", "all") : r \in Resources},
   user  |-> {Permission(r, "read", "group") : r \in {"file", "folder", "share"}}
             \cup {Permission(r, a, "own") : r \in {"file", "folder", "share"}, a \in {"write", "delete"}}
             \cup {Permission("user", a, "own") : a \in {"read", "write"}},
   guest |-> {Permission(r, "read", "group") : r \in {"file", "folder"}}]

Authorize(perms, resource, action, scope) ==
  \E p \in perms : Matches(p, resource, action, scope)

-----------------------------------------------------------------------------
(* API tokens.                                                              *)

FormatPermission(resource, action, scope) == <<resource, action, scope>>

(* What a user's role lets a token have.                                     *)
getUserAvailablePermissions(role) ==
  CASE role = "admin" ->
         {<<r, a, "all">> : r \in Resources \ {"system"}, a \in {"read", "write", "delete"}}
         \cup {<<"system", "manage", "all">>}
    [] role = "user" ->
         {<<r, a, "own">> : r \in {"file", "folder", "share"}, a \in {"read", "write", "delete"}}
         \cup {<<r, "read", "group">> : r \in {"file", "folder", "share"}}
         \cup {<<"user", a, "own">> : a \in {"read", "write"}}
    [] role = "guest" -> {<<r, "read", "group">> : r \in {"file", "folder"}}
    [] OTHER -> {}

(* No request is a request for all that is available.                        *)
filterValidPermissions(requested, available) ==
  IF requested = {} THEN available ELSE requested \cap available

(* Equal, or below a permission that ends in a star.                         *)
HasPermission(permissions, resource, action, scope) ==
  LET asked == FormatPermission(resource, action, scope)
  IN  \E p \in permissions :
        \/ p = asked
        \/ Len(p) > 1 /\ Last(p) = "*" /\ IsStrictPrefix(Front(p), asked)

(* Everything one may ask for, the stars too.                                *)
Requestable ==
  {<<r, a, s>> : r \in Resources, a \in {"read", "write", "delete", "manage"}, s \in Scopes \cup {"*"}}
  \cup {<<r, "*">> : r \in Resources} \cup {<<"*">>}
=============================================================================
