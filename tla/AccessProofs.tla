----------------------------- MODULE AccessProofs -----------------------------
(***************************************************************************)
(* Proofs about access control, for any users, names, slots, checks, peers *)
(* and calls: a session is justified by its login, guesses are delayed,    *)
(* the permission cache grants what was granted, a token gets no more than *)
(* its user's role has, and the peers in memory mirror their table.        *)
(***************************************************************************)
EXTENDS AccessControl, FiniteSetTheorems, TLAPS

(***************************************************************************)
(* Logins.                                                                 *)
(***************************************************************************)

RowRec == [status : Statuses, pwd : Passwords, change : BOOLEAN]
AttemptRec == [count : 1 .. MaxCount, locked : BOOLEAN]
TotpRec == [user : Totp, ok : {TRUE}]
Labels == {"idle", "user", "fail", "clear", "challenge", "session", "token", "code", "cleartotp", "change"}
RequestRec == [pc : Labels, name : Names \cup {None}, pwd : Passwords \cup {None},
               user : Users \cup {None}, seen : BOOLEAN, delayed : BOOLEAN,
               ok : BOOLEAN, code : BOOLEAN, id : Challenges \cup Sessions \cup {None}]

AuthTypes ==
  /\ row \in [Users -> RowRec \cup {None, Deleted}]
  /\ attempts \in [Names -> AttemptRec \cup {None}]
  /\ totp \in [Challenges -> TotpRec \cup {None}]
  /\ tokens \subseteq Sessions
  /\ request \in [Slots -> RequestRec]
  /\ undelayed \in [Names -> Nat]

(* One live row per name.                                                    *)
NamesUnique ==
  \A u, v \in Users : GetUserByID(u) /\ GetUserByID(v) /\ NameOf[u] = NameOf[v] => u = v

(* What a request has established by the time it is at a statement.          *)
Established(r) ==
  /\ r.pc \in {"user", "fail"} => r.name \in Names
  /\ r.pc = "user" => r.pwd \in Passwords
  /\ r.pc = "clear" => r.name \in Names /\ r.user \in Users /\ (r.seen \/ r.ok)
  /\ r.pc = "challenge" => r.ok /\ r.user \in Totp
  /\ r.pc = "session" => r.ok /\ r.user \in Users /\ (r.user \in Totp => r.code)
  /\ r.pc = "token" => r.id \in Sessions
  /\ r.pc \in {"code", "cleartotp"} => r.ok /\ r.user \in Totp /\ r.id \in Challenges
  /\ r.pc = "cleartotp" => r.code
  /\ r.pc = "change" => r.user \in Users

RequestsOK == \A s \in Slots : Established(request[s])

SessionsOK ==
  \A k \in Sessions : sessions[k] # None =>
    sessions[k].user \in Users /\ sessions[k].ok /\ (sessions[k].user \in Totp => sessions[k].code)

(* Requests for a name that passed the check without a delay and have not    *)
(* been counted.                                                             *)
Guesses(n, req) == {s \in Slots : req[s].name = n /\ ~req[s].delayed /\ req[s].pc \in {"user", "fail"}}

GuessesCounted ==
  \A n \in Names :
    /\ attempts[n] = None => undelayed[n] = 0
    /\ attempts[n] # None /\ attempts[n].count < ShiftLimit =>
         undelayed[n] + Cardinality(Guesses(n, request)) <= Cardinality(Slots)
    /\ attempts[n] # None /\ attempts[n].count = ShiftLimit => undelayed[n] <= Cardinality(Slots)

AuthIInv == AuthTypes /\ NamesUnique /\ RequestsOK /\ SessionsOK /\ GuessesCounted

(***************************************************************************)
(* The permission cache.                                                   *)
(***************************************************************************)

(* g was granted to u, or is a later revision of a role he had.              *)
Held(u, g) ==
  \/ g \in had[u]
  \/ \E h \in had[u] : h[1] = g[1] /\ g[2] > h[2]

RBACTypes ==
  /\ roleOf \in [People -> Roles] /\ revision \in [Roles -> Nat]
  /\ perms \in [People -> (Roles \X Nat) \cup {Nothing}]
  /\ had \in [People -> SUBSET (Roles \X Nat)]
  /\ check \in [Checks -> [pc : {"idle", "user", "role", "copy", "store"}, user : People \cup {Nothing},
                           role : Roles \cup {""}, found : (Roles \X Nat) \cup {Nothing}]]

CurrentHad == \A u \in People : Granted(u, roleOf, revision) \in had[u]

ChecksOK ==
  \A c \in Checks :
    /\ check[c].pc # "idle" => check[c].user \in People
    /\ check[c].pc \in {"role", "copy"} =>
         /\ check[c].role \in Roles
         /\ \E h \in had[check[c].user] : h[1] = check[c].role /\ h[2] <= revision[check[c].role]
    /\ check[c].pc = "store" => check[c].found # Nothing /\ Held(check[c].user, check[c].found)

RBACIInv == RBACTypes /\ CurrentHad /\ ChecksOK /\ RoleCached

(***************************************************************************)
(* Peers.                                                                  *)
(***************************************************************************)

PeerStatus == [at : Servers \cup {Unknown}, status : {"active", "inactive", "pending"}]
CallRec == [pc : {"idle", "save", "remember", "forget", "ping", "update"},
            op : {"none", "add", "discover", "remove", "health", "list"},
            id : PeerIDs \cup {Self, Unknown}, peer : PeerStatus \cup {Unknown}, alone : BOOLEAN]

FederationTypes ==
  /\ table \in [PeerIDs -> Peer \cup {Unknown}]
  /\ peers \in [PeerIDs -> Peer \cup {Unknown}]
  /\ invites \subseteq Invites /\ started \in BOOLEAN
  /\ call \in [Calls -> CallRec]

(* What a call carries to its next statement.                                *)
Carries(c) ==
  /\ c.pc \in {"remember", "forget", "ping", "update"} => c.id \in PeerIDs
  /\ c.pc \in {"save", "remember"} => c.peer \in Peer
  /\ c.pc = "save" => c.id \in PeerIDs
  /\ c.pc \in {"ping", "update"} => c.op = "health"
  /\ c.pc \in {"remember", "forget"} => c.op # "health"
  /\ c.pc = "update" => c.peer.status \in {"active", "inactive"}

CallsOK == \A k \in Calls : Carries(call[k])

(* A call that is alone has no other call between its writes on its peer; of *)
(* one that is not, history knows.                                           *)
AloneOK ==
  \A k \in Calls : call[k].pc \in Between =>
    /\ call[k].alone => \A d \in Calls : d # k /\ call[d].pc \in Between => call[d].id # call[k].id
    /\ ~call[k].alone => call[k].id \in unlike

(* Between the two writes of a call that is alone, the one that is written   *)
(* is what the other is to become.                                           *)
HalfWritten ==
  \A k \in Calls : call[k].alone =>
    /\ call[k].pc = "remember" => table[call[k].id] = call[k].peer
    /\ call[k].pc = "forget" => table[call[k].id] = Unknown
    /\ call[k].pc = "update" /\ call[k].id \notin unlike =>
         peers[call[k].id] = IF table[call[k].id] = Unknown THEN Unknown
                             ELSE [table[call[k].id] EXCEPT !.status = call[k].peer.status]

Alike ==
  \A p \in PeerIDs \ unlike :
    (\A k \in Calls : ~(call[k].id = p /\ call[k].pc \in Between)) => peers[p] = table[p]

FederationIInv == FederationTypes /\ CallsOK /\ AloneOK /\ HalfWritten /\ Alike

(***************************************************************************)
(* Tokens.                                                                 *)
(***************************************************************************)
TokenOK ==
  validPerms # None =>
    /\ validPerms.role \in RoleNames
    /\ validPerms.permissions \subseteq getUserAvailablePermissions(validPerms.role)

AccessIInv == AuthIInv /\ RBACIInv /\ FederationIInv /\ TokenOK

-----------------------------------------------------------------------------
(* Tokens: the two lists of permissions, compared case by case.             *)

(* None of the available permissions has a star: what HasPermission finds is *)
(* in the list as it stands.                                                 *)
LEMMA Starless ==
  ASSUME NEW role \in RoleNames, NEW p \in getUserAvailablePermissions(role)
  PROVE  \E r \in Resources, a \in {"read", "write", "delete", "manage"}, s \in Scopes : p = <<r, a, s>>
<1>1. CASE role = "admin" BY <1>1 DEF getUserAvailablePermissions, Resources, Scopes
<1>2. CASE role = "user" BY <1>2 DEF getUserAvailablePermissions, Resources, Scopes
<1>3. CASE role = "guest" BY <1>3 DEF getUserAvailablePermissions, Resources, Scopes
<1> QED BY <1>1, <1>2, <1>3 DEF RoleNames

LEMMA AvailableAuthorized ==
  ASSUME NEW role \in RoleNames, NEW r, NEW a, NEW s,
         <<r, a, s>> \in getUserAvailablePermissions(role)
  PROVE  Authorize(seedDefaultRoles[role], r, a, s)
<1> USE DEF Authorize, Matches, Permission, scopeLevels
<1>1. CASE role = "admin"
  <2>1. r \in Resources /\ s = "all" BY <1>1 DEF getUserAvailablePermissions, Resources
  <2>2. Permission(r, "manage", "all") \in seedDefaultRoles[role] BY <1>1, <2>1 DEF seedDefaultRoles
  <2>3. Matches(Permission(r, "manage", "all"), r, a, s) BY <2>1
  <2> QED BY <2>2, <2>3
<1>2. CASE role = "user"
  <2>1. \/ r \in {"file", "folder", "share"} /\ a = "read" /\ s \in {"own", "group"}
        \/ r \in {"file", "folder", "share"} /\ a \in {"write", "delete"} /\ s = "own"
        \/ r = "user" /\ a \in {"read", "write"} /\ s = "own"
    BY <1>2 DEF getUserAvailablePermissions
  <2>2. CASE r \in {"file", "folder", "share"} /\ a = "read" /\ s \in {"own", "group"}
    <3>1. Permission(r, "read", "group") \in seedDefaultRoles[role] BY <1>2, <2>2 DEF seedDefaultRoles
    <3>2. Matches(Permission(r, "read", "group"), r, a, s) BY <2>2
    <3> QED BY <3>1, <3>2
  <2>3. CASE r \in {"file", "folder", "share"} /\ a \in {"write", "delete"} /\ s = "own"
    <3>1. Permission(r, a, "own") \in seedDefaultRoles[role] BY <1>2, <2>3 DEF seedDefaultRoles
    <3>2. Matches(Permission(r, a, "own"), r, a, s) BY <2>3
    <3> QED BY <3>1, <3>2
  <2>4. CASE r = "user" /\ a \in {"read", "write"} /\ s = "own"
    <3>1. Permission(r, a, "own") \in seedDefaultRoles[role] BY <1>2, <2>4 DEF seedDefaultRoles
    <3>2. Matches(Permission(r, a, "own"), r, a, s) BY <2>4
    <3> QED BY <3>1, <3>2
  <2> QED BY <2>1, <2>2, <2>3, <2>4
<1>3. CASE role = "guest"
  <2>1. r \in {"file", "folder"} /\ a = "read" /\ s = "group" BY <1>3 DEF getUserAvailablePermissions
  <2>2. Permission(r, "read", "group") \in seedDefaultRoles[role] BY <1>3, <2>1 DEF seedDefaultRoles
  <2>3. Matches(Permission(r, "read", "group"), r, a, s) BY <2>1
  <2> QED BY <2>2, <2>3
<1> QED BY <1>1, <1>2, <1>3 DEF RoleNames

LEMMA TokenImplies == TokenOK => TokenWithinRole
<1> SUFFICES ASSUME TokenOK, validPerms # None,
                    NEW r \in Resources, NEW a \in {"read", "write", "delete", "manage"}, NEW s \in Scopes,
                    HasPermission(validPerms.permissions, r, a, s)
             PROVE  Authorize(seedDefaultRoles[validPerms.role], r, a, s)
  BY DEF TokenWithinRole
<1> DEFINE role == validPerms.role
<1>1. role \in RoleNames /\ validPerms.permissions \subseteq getUserAvailablePermissions(role) BY DEF TokenOK
<1> HIDE DEF role
<1>2. PICK p \in validPerms.permissions :
        \/ p = <<r, a, s>>
        \/ Len(p) > 1 /\ Last(p) = "*" /\ IsStrictPrefix(Front(p), <<r, a, s>>)
  BY DEF HasPermission, FormatPermission
<1>3. PICK x \in Resources, y \in {"read", "write", "delete", "manage"}, z \in Scopes : p = <<x, y, z>>
  BY <1>1, Starless
<1>4. Last(p) # "*" BY <1>3 DEF Last, Scopes
<1>5. <<r, a, s>> \in getUserAvailablePermissions(role) BY <1>1, <1>2, <1>4
<1> QED BY <1>1, <1>5, AvailableAuthorized DEF role

LEMMA TokenStep == GenerateToken => TokenOK'
<1> SUFFICES ASSUME GenerateToken PROVE TokenOK' OBVIOUS
<1>1. PICK role \in RoleNames, asked \in {{}} \cup {{p} : p \in Requestable} :
        validPerms' = [role |-> role,
                       permissions |-> filterValidPermissions(asked, getUserAvailablePermissions(role))]
  BY DEF GenerateToken
<1>2. filterValidPermissions(asked, getUserAvailablePermissions(role)) \subseteq getUserAvailablePermissions(role)
  BY DEF filterValidPermissions
<1>3. validPerms'.role = role
      /\ validPerms'.permissions = filterValidPermissions(asked, getUserAvailablePermissions(role))
  BY <1>1
<1> QED BY <1>2, <1>3 DEF TokenOK

-----------------------------------------------------------------------------
(* The permission cache.                                                    *)

CheckRec == [pc : {"idle", "user", "role", "copy", "store"}, user : People \cup {Nothing},
             role : Roles \cup {""}, found : (Roles \X Nat) \cup {Nothing}]

LEMMA RBACStart == RBACInit => RBACIInv
<1> SUFFICES ASSUME RBACInit PROVE RBACIInv OBVIOUS
<1>1. RBACTypes
  <2>1. "user" \in Roles /\ <<"user", 1>> \in Roles \X Nat BY DEF Roles
  <2>2. roleOf \in [People -> Roles] /\ revision \in [Roles -> Nat] BY <2>1 DEF RBACInit
  <2>3. perms \in [People -> (Roles \X Nat) \cup {Nothing}] BY DEF RBACInit
  <2>4. had \in [People -> SUBSET (Roles \X Nat)] BY <2>1 DEF RBACInit
  <2>5. check \in [Checks -> CheckRec] BY DEF RBACInit, NoCheck, CheckRec
  <2> QED BY <2>2, <2>3, <2>4, <2>5 DEF RBACTypes, CheckRec
<1>2. CurrentHad BY DEF RBACInit, CurrentHad, Granted, Roles, Custom
<1>3. ChecksOK BY DEF RBACInit, ChecksOK, NoCheck
<1>4. RoleCached BY DEF RBACInit, RoleCached
<1> QED BY <1>1, <1>2, <1>3, <1>4 DEF RBACIInv

(* A step that keeps what is cached and read justified: had and the          *)
(* revisions only grow.                                                      *)
LEMMA HadGrows ==
  ASSUME RBACIInv, roleOf' \in [People -> Roles], revision' \in [Roles -> Nat],
         \A r \in Roles : revision[r] <= revision'[r], Remember
  PROVE  /\ had' \in [People -> SUBSET (Roles \X Nat)] /\ CurrentHad'
         /\ \A u \in People : had[u] \subseteq had'[u]
         /\ \A g : \A u \in People : Held(u, g) => Held(u, g)'
<1>1. had \in [People -> SUBSET (Roles \X Nat)] BY DEF RBACIInv, RBACTypes
<1>2. \A u \in People : had'[u] = had[u] \cup {Granted(u, roleOf', revision')} BY DEF Remember
<1>3. \A u \in People : Granted(u, roleOf', revision') \in Roles \X Nat BY DEF Granted
<1>4. had' \in [People -> SUBSET (Roles \X Nat)] BY <1>1, <1>3 DEF Remember
<1>5. CurrentHad' BY <1>2 DEF CurrentHad
<1>6. \A u \in People : had[u] \subseteq had'[u] BY <1>2
<1>7. \A g : \A u \in People : Held(u, g) => Held(u, g)' BY <1>6 DEF Held
<1> QED BY <1>4, <1>5, <1>6, <1>7

LEMMA ChecksKept ==
  ASSUME RBACIInv, roleOf' \in [People -> Roles], revision' \in [Roles -> Nat],
         \A r \in Roles : revision[r] <= revision'[r], Remember, NEW c \in Checks,
         check'[c] = check[c]
  PROVE  /\ check'[c].pc # "idle" => check'[c].user \in People
         /\ check'[c].pc \in {"role", "copy"} =>
              /\ check'[c].role \in Roles
              /\ \E h \in had'[check'[c].user] : h[1] = check'[c].role /\ h[2] <= revision'[check'[c].role]
         /\ check'[c].pc = "store" => check'[c].found # Nothing /\ Held(check[c].user, check[c].found)'
<1>1. /\ \A u \in People : had[u] \subseteq had'[u]
      /\ \A g : \A u \in People : Held(u, g) => Held(u, g)'
  BY HadGrows
<1>2. /\ check[c].pc # "idle" => check[c].user \in People
      /\ check[c].pc \in {"role", "copy"} =>
              /\ check[c].role \in Roles
              /\ \E h \in had[check[c].user] : h[1] = check[c].role /\ h[2] <= revision[check[c].role]
      /\ check[c].pc = "store" => check[c].found # Nothing /\ Held(check[c].user, check[c].found)
  BY DEF RBACIInv, ChecksOK
<1>3. ASSUME check[c].pc \in {"role", "copy"}
      PROVE  \E h \in had'[check[c].user] : h[1] = check[c].role /\ h[2] <= revision'[check[c].role]
  <2>1. check[c].user \in People /\ check[c].role \in Roles BY <1>2, <1>3
  <2>2. PICK h \in had[check[c].user] : h[1] = check[c].role /\ h[2] <= revision[check[c].role]
    BY <1>2, <1>3
  <2>3. h \in Roles \X Nat BY <2>1 DEF RBACIInv, RBACTypes
  <2>4. h[2] <= revision'[check[c].role]
    <3>1. h[2] \in Nat /\ revision[check[c].role] \in Nat /\ revision'[check[c].role] \in Nat
      BY <2>1, <2>3 DEF RBACIInv, RBACTypes
    <3>2. revision[check[c].role] <= revision'[check[c].role] BY <2>1
    <3> QED BY <2>2, <3>1, <3>2
  <2> QED BY <1>1, <2>1, <2>2, <2>4
<1>4. check[c].pc = "store" => check[c].found # Nothing /\ Held(check[c].user, check[c].found)'
  BY <1>1, <1>2
<1> QED BY <1>2, <1>3, <1>4

(* Steps that leave the checks alone: roles change, entries of the cache go. *)
LEMMA RolesStep ==
  ASSUME RBACIInv, roleOf' \in [People -> Roles], revision' \in [Roles -> Nat],
         \A r \in Roles : revision[r] <= revision'[r], Remember, check' = check,
         \A u \in People : perms'[u] = Nothing \/ perms'[u] = perms[u],
         perms' \in [People -> (Roles \X Nat) \cup {Nothing}]
  PROVE  RBACIInv'
<1>1. /\ had' \in [People -> SUBSET (Roles \X Nat)] /\ CurrentHad'
      /\ \A g : \A u \in People : Held(u, g) => Held(u, g)'
  BY HadGrows
<1>2. RBACTypes' BY <1>1 DEF RBACIInv, RBACTypes
<1>3. ChecksOK'
  <2> SUFFICES ASSUME NEW c \in Checks
               PROVE  /\ check'[c].pc # "idle" => check'[c].user \in People
                      /\ check'[c].pc \in {"role", "copy"} =>
                           /\ check'[c].role \in Roles
                           /\ \E h \in had'[check'[c].user] : h[1] = check'[c].role /\ h[2] <= revision'[check'[c].role]
                      /\ check'[c].pc = "store" => check'[c].found # Nothing /\ Held(check[c].user, check[c].found)'
    BY DEF ChecksOK
  <2> QED BY ChecksKept
<1>4. RoleCached'
  <2> SUFFICES ASSUME NEW u \in People, perms'[u] # Nothing PROVE Held(u, perms[u])'
    BY DEF RoleCached, Held
  <2>1. perms'[u] = perms[u] /\ Held(u, perms[u]) BY DEF RBACIInv, RoleCached, Held
  <2> QED BY <1>1, <2>1
<1> QED BY <1>1, <1>2, <1>3, <1>4 DEF RBACIInv

(* Steps of one check that leave the roles alone.                            *)
LEMMA CheckStep ==
  ASSUME RBACIInv, UNCHANGED <<roleOf, revision>>, Remember, NEW c \in Checks, NEW r \in CheckRec,
         check' = [check EXCEPT ![c] = r],
         r.pc # "idle" => r.user \in People,
         r.pc \in {"role", "copy"} =>
           r.role \in Roles /\ \E h \in had[r.user] : h[1] = r.role /\ h[2] <= revision[r.role],
         r.pc = "store" => r.found # Nothing /\ Held(r.user, r.found),
         perms' \in [People -> (Roles \X Nat) \cup {Nothing}],
         \A u \in People : perms'[u] # Nothing => perms'[u] = perms[u] \/ Held(u, perms'[u])
  PROVE  RBACIInv'
<1>0. roleOf' \in [People -> Roles] /\ revision' \in [Roles -> Nat] /\ \A q \in Roles : revision[q] <= revision'[q]
  <2>1. roleOf \in [People -> Roles] /\ revision \in [Roles -> Nat] BY DEF RBACIInv, RBACTypes
  <2>2. \A q \in Roles : revision[q] \in Nat BY <2>1
  <2> QED BY <2>1, <2>2
<1>1. /\ had' \in [People -> SUBSET (Roles \X Nat)] /\ CurrentHad'
      /\ \A u \in People : had[u] \subseteq had'[u]
      /\ \A g : \A u \in People : Held(u, g) => Held(u, g)'
  BY <1>0, HadGrows
<1>2. check \in [Checks -> CheckRec] BY DEF RBACIInv, RBACTypes, CheckRec
<1>3. RBACTypes' BY <1>0, <1>1, <1>2 DEF RBACTypes, CheckRec
<1>4. ChecksOK'
  <2> SUFFICES ASSUME NEW d \in Checks
               PROVE  /\ check'[d].pc # "idle" => check'[d].user \in People
                      /\ check'[d].pc \in {"role", "copy"} =>
                           /\ check'[d].role \in Roles
                           /\ \E h \in had'[check'[d].user] : h[1] = check'[d].role /\ h[2] <= revision'[check'[d].role]
                      /\ check'[d].pc = "store" => check'[d].found # Nothing /\ Held(check[d].user, check[d].found)'
    BY DEF ChecksOK
  <2>1. CASE d = c
    <3>1. check'[d] = r BY <1>2, <2>1
    <3>2. ASSUME r.pc \in {"role", "copy"}
          PROVE  \E h \in had'[r.user] : h[1] = r.role /\ h[2] <= revision'[r.role]
      BY <1>1, <3>2
    <3>3. ASSUME r.pc = "store" PROVE Held(check[d].user, check[d].found)'
      <4>1. \A g : \A u \in People : Held(u, g) => (g \in had'[u] \/ \E h \in had'[u] : h[1] = g[1] /\ g[2] > h[2])
        BY <1>1 DEF Held
      <4> QED BY <3>1, <3>3, <4>1 DEF Held
    <3> QED BY <3>1, <3>2, <3>3
  <2>2. CASE d # c
    <3>1. check'[d] = check[d] BY <1>2, <2>2
    <3> QED BY <1>0, <3>1, ChecksKept
  <2> QED BY <2>1, <2>2
<1>5. RoleCached'
  <2> SUFFICES ASSUME NEW u \in People, perms'[u] # Nothing PROVE Held(u, perms[u])'
    BY DEF RoleCached, Held
  <2>1. Held(u, perms'[u])
    <3>1. perms[u] # Nothing => Held(u, perms[u]) BY DEF RBACIInv, RoleCached, Held
    <3> QED BY <3>1
  <2>2. \A g : Held(u, g) => (g \in had'[u] \/ \E h \in had'[u] : h[1] = g[1] /\ g[2] > h[2])
    BY <1>1 DEF Held
  <2> QED BY <2>1, <2>2 DEF Held
<1> QED BY <1>1, <1>3, <1>4, <1>5 DEF RBACIInv

LEMMA RBACSteps ==
  ASSUME RBACIInv, RBACNext
  PROVE  RBACIInv'
<1>0. /\ roleOf \in [People -> Roles] /\ revision \in [Roles -> Nat]
      /\ perms \in [People -> (Roles \X Nat) \cup {Nothing}] /\ check \in [Checks -> CheckRec]
      /\ had \in [People -> SUBSET (Roles \X Nat)]
  BY DEF RBACIInv, RBACTypes, CheckRec
<1>a. \A d \in CheckRec : /\ d.pc \in {"idle", "user", "role", "copy", "store"} /\ d.user \in People \cup {Nothing}
                          /\ d.role \in Roles \cup {""} /\ d.found \in (Roles \X Nat) \cup {Nothing}
  BY DEF CheckRec
<1>b. Custom \in Roles BY DEF Roles
<1>1. ASSUME NEW u \in People, SetRole(u) PROVE RBACIInv'
  <2>1. roleOf' \in [People -> Roles] BY <1>0, <1>1 DEF SetRole
  <2> QED BY <1>0, <1>1, <2>1, RolesStep DEF SetRole
<1>2. CASE AddRole
  <2>1. revision' \in [Roles -> Nat] /\ \A r \in Roles : revision[r] <= revision'[r]
    BY <1>0, <1>b, <1>2 DEF AddRole
  <2> QED BY <1>0, <1>2, <2>1, RolesStep DEF AddRole
<1>3. CASE UpdateRole
  <2>1. revision' \in [Roles -> Nat] /\ \A r \in Roles : revision[r] <= revision'[r]
    BY <1>0, <1>b, <1>3 DEF UpdateRole
  <2> QED BY <1>0, <1>3, <2>1, RolesStep DEF UpdateRole
<1>4. ASSUME NEW u \in People, InvalidateUserCache(u) PROVE RBACIInv'
  <2>1. /\ perms' \in [People -> (Roles \X Nat) \cup {Nothing}]
        /\ \A v \in People : perms'[v] = Nothing \/ perms'[v] = perms[v]
    BY <1>0, <1>4 DEF InvalidateUserCache
  <2>2. \A r \in Roles : revision[r] <= revision[r] BY <1>0
  <2> QED BY <1>0, <1>4, <2>1, <2>2, RolesStep DEF InvalidateUserCache
<1>5. ASSUME NEW c \in Checks, getUserPermissions(c) PROVE RBACIInv'
  <2>1. PICK u \in People : check' = [check EXCEPT ![c] = [NoCheck EXCEPT !.pc = "user", !.user = u]]
    BY <1>5 DEF getUserPermissions
  <2> DEFINE r == [NoCheck EXCEPT !.pc = "user", !.user = u]
  <2>2. r \in CheckRec /\ r.pc = "user" /\ r.user = u BY DEF NoCheck, CheckRec
  <2> HIDE DEF r
  <2>3. check' = [check EXCEPT ![c] = r] BY <2>1 DEF r
  <2> QED BY <1>0, <1>5, <2>2, <2>3, CheckStep DEF getUserPermissions
<1>6. ASSUME NEW c \in Checks, GetUserRole(c) PROVE RBACIInv'
  <2> DEFINE d == check[c]
             u == d.user
             r == [d EXCEPT !.pc = "role", !.role = roleOf[u]]
  <2>1. check' = [check EXCEPT ![c] = r] BY <1>6 DEF GetUserRole
  <2>2. d \in CheckRec /\ u \in People BY <1>0, <1>6 DEF GetUserRole, RBACIInv, ChecksOK
  <2>3. roleOf[u] \in Roles BY <1>0, <2>2
  <2>4. r \in CheckRec /\ r.pc = "role" /\ r.user = u /\ r.role = roleOf[u] BY <2>2, <2>3 DEF CheckRec
  <2>5. \E h \in had[u] : h[1] = roleOf[u] /\ h[2] <= revision[roleOf[u]]
    <3> HIDE DEF u
    <3>1. <<roleOf[u], revision[roleOf[u]]>> \in had[u] BY <2>2 DEF RBACIInv, CurrentHad, Granted
    <3>2. revision[roleOf[u]] \in Nat BY <1>0, <2>3
    <3>3. revision[roleOf[u]] <= revision[roleOf[u]] BY <3>2
    <3> QED BY <3>1, <3>3
  <2> HIDE DEF d, u, r
  <2>6. r.role \in Roles /\ \E h \in had[r.user] : h[1] = r.role /\ h[2] <= revision[r.role]
    BY <2>3, <2>4, <2>5
  <2>7. r.pc # "store" /\ r.user \in People BY <2>2, <2>4
  <2> QED BY <1>0, <1>6, <2>1, <2>4, <2>6, <2>7, CheckStep DEF GetUserRole
<1>7. ASSUME NEW c \in Checks, GetRole(c) PROVE RBACIInv'
  <2> DEFINE d == check[c]
             r == [d EXCEPT !.pc = "copy"]
  <2>0. NoCheck \in CheckRec /\ NoCheck.pc = "idle" BY DEF NoCheck, CheckRec
  <2>1. d \in CheckRec /\ d.user \in People /\ d.role \in Roles
        /\ \E h \in had[d.user] : h[1] = d.role /\ h[2] <= revision[d.role]
    BY <1>0, <1>7 DEF GetRole, RBACIInv, ChecksOK
  <2>2. r \in CheckRec /\ r.pc = "copy" /\ r.user = d.user /\ r.role = d.role BY <2>1 DEF CheckRec
  <2>3. check' = [check EXCEPT ![c] = NoCheck] \/ check' = [check EXCEPT ![c] = r] BY <1>7 DEF GetRole
  <2> HIDE DEF d, r
  <2>4. CASE check' = [check EXCEPT ![c] = NoCheck] BY <1>0, <1>7, <2>0, <2>4, CheckStep DEF GetRole
  <2>5. CASE check' = [check EXCEPT ![c] = r] BY <1>0, <1>7, <2>1, <2>2, <2>5, CheckStep DEF GetRole
  <2> QED BY <2>3, <2>4, <2>5
<1>8. ASSUME NEW c \in Checks, CopyPermissions(c) PROVE RBACIInv'
  <2> DEFINE d == check[c]
             g == <<d.role, revision[d.role]>>
             r == [d EXCEPT !.pc = "store", !.found = g]
  <2>1. check' = [check EXCEPT ![c] = r] BY <1>8 DEF CopyPermissions
  <2>2. d \in CheckRec /\ d.user \in People /\ d.role \in Roles
        /\ \E h \in had[d.user] : h[1] = d.role /\ h[2] <= revision[d.role]
    BY <1>0, <1>8 DEF CopyPermissions, RBACIInv, ChecksOK
  <2>3. g \in Roles \X Nat /\ g # Nothing BY <1>0, <2>2 DEF Nothing
  <2>4. r \in CheckRec /\ r.pc = "store" /\ r.user = d.user /\ r.found = g BY <2>2, <2>3 DEF CheckRec
  <2>5. Held(d.user, g)
    <3>1. PICK h \in had[d.user] : h[1] = d.role /\ h[2] <= revision[d.role] BY <2>2
    <3>2. h \in Roles \X Nat BY <1>0, <2>2
    <3>3. g[1] = d.role /\ g[2] = revision[d.role] /\ h = <<h[1], h[2]>> /\ h[2] \in Nat BY <3>2
    <3>4. revision[d.role] \in Nat BY <1>0, <2>2
    <3>5. CASE h[2] = revision[d.role]
      <4>1. h = g BY <3>1, <3>3, <3>5
      <4> QED BY <4>1 DEF Held
    <3>6. CASE h[2] # revision[d.role]
      <4>1. g[2] > h[2] BY <3>1, <3>3, <3>4, <3>6
      <4> QED BY <3>1, <3>3, <4>1 DEF Held
    <3> QED BY <3>5, <3>6
  <2> HIDE DEF d, g, r
  <2> QED BY <1>0, <1>8, <2>1, <2>2, <2>3, <2>4, <2>5, CheckStep DEF CopyPermissions
<1>9. ASSUME NEW c \in Checks, StorePermissions(c) PROVE RBACIInv'
  <2> DEFINE d == check[c]
  <2>0. NoCheck \in CheckRec /\ NoCheck.pc = "idle" BY DEF NoCheck, CheckRec
  <2>1. d \in CheckRec /\ d.user \in People /\ d.found # Nothing /\ Held(d.user, d.found)
    BY <1>0, <1>9 DEF StorePermissions, RBACIInv, ChecksOK
  <2>2. d.found \in Roles \X Nat BY <1>a, <2>1
  <2>3. perms' = [perms EXCEPT ![d.user] = d.found] /\ check' = [check EXCEPT ![c] = NoCheck]
    BY <1>9 DEF StorePermissions
  <2> HIDE DEF d
  <2>4. perms' \in [People -> (Roles \X Nat) \cup {Nothing}] BY <1>0, <2>1, <2>2, <2>3
  <2>5. \A u \in People : perms'[u] # Nothing => perms'[u] = perms[u] \/ Held(u, perms'[u])
    BY <1>0, <2>1, <2>3
  <2> QED BY <1>9, <2>0, <2>3, <2>4, <2>5, CheckStep DEF StorePermissions
<1> QED BY <1>1, <1>2, <1>3, <1>4, <1>5, <1>6, <1>7, <1>8, <1>9 DEF RBACNext

LEMMA RBACImplies == RBACIInv => RBACTypeOK /\ RoleCached
<1> SUFFICES ASSUME RBACIInv PROVE RBACTypeOK BY DEF RBACIInv
<1>1. check \in [Checks -> CheckRec] BY DEF RBACIInv, RBACTypes, CheckRec
<1>2. \A c \in Checks : check[c].pc \in {"idle", "user", "role", "copy", "store"} BY <1>1 DEF CheckRec
<1> QED BY <1>2 DEF RBACTypeOK, RBACIInv, RBACTypes

-----------------------------------------------------------------------------
(* Logins: requests.                                                        *)

LEMMA RequestFields ==
  ASSUME NEW r \in RequestRec
  PROVE  /\ r.pc \in Labels /\ r.name \in Names \cup {None} /\ r.pwd \in Passwords \cup {None}
         /\ r.user \in Users \cup {None} /\ r.seen \in BOOLEAN /\ r.delayed \in BOOLEAN
         /\ r.ok \in BOOLEAN /\ r.code \in BOOLEAN /\ r.id \in Challenges \cup Sessions \cup {None}
BY DEF RequestRec

LEMMA FreeFacts ==
  /\ Free \in RequestRec /\ Free.pc = "idle" /\ Free.delayed = TRUE /\ Free.name = None
  /\ Established(Free)
<1>1. Free \in RequestRec BY DEF Free, RequestRec, Labels
<1>2. Free.pc = "idle" /\ Free.delayed = TRUE /\ Free.name = None BY DEF Free
<1> QED BY <1>1, <1>2 DEF Established

(* q is the request r, but for the history of its justification.             *)
SameBut(q, r) ==
  /\ q.pc = r.pc /\ q.name = r.name /\ q.pwd = r.pwd /\ q.user = r.user /\ q.seen = r.seen
  /\ q.delayed = r.delayed /\ q.code = r.code /\ q.id = r.id
  /\ r.ok => q.ok

LEMMA RequestsFacts ==
  ASSUME NEW next \in [Slots -> RequestRec], Requests(next)
  PROVE  /\ request' \in [Slots -> RequestRec]
         /\ \A s \in Slots :
              /\ SameBut(request'[s], next[s])
              /\ next[s].name # None /\ Justified(next[s].name, next[s].pwd, row') => request'[s].ok
<1> DEFINE J(s) == Justified(next[s].name, next[s].pwd, row')
<1>1. ASSUME NEW s \in Slots
      PROVE  /\ request'[s] \in RequestRec
             /\ SameBut(request'[s], next[s])
             /\ next[s].name # None /\ J(s) => request'[s].ok
  <2> DEFINE r == next[s]
             o == r.ok \/ J(s)
  <2>1. r \in RequestRec /\ r.ok \in BOOLEAN BY RequestFields
  <2>2. o \in BOOLEAN BY <2>1 DEF Justified
  <2>3. request'[s] = IF r.name = None THEN r ELSE [r EXCEPT !.ok = o] BY DEF Requests
  <2>4. o <=> (r.ok \/ J(s)) OBVIOUS
  <2> HIDE DEF o, r, J
  <2>5. CASE r.name = None
    <3>1. request'[s] = r BY <2>3, <2>5
    <3> QED BY <2>1, <2>5, <3>1 DEF SameBut, r
  <2>6. CASE r.name # None
    <3>1. request'[s] = [r EXCEPT !.ok = o] BY <2>3, <2>6
    <3>2. [r EXCEPT !.ok = o] \in RequestRec BY <2>1, <2>2 DEF RequestRec
    <3>3. [r EXCEPT !.ok = o].ok = o BY <2>1 DEF RequestRec
    <3>4. SameBut(request'[s], r) BY <2>1, <2>4, <3>1, <3>3 DEF SameBut, RequestRec
    <3> QED BY <2>4, <3>1, <3>2, <3>3, <3>4 DEF r
  <2> QED BY <2>5, <2>6
<1>2. request' \in [Slots -> RequestRec]
  <2>1. request' = [s \in Slots |-> request'[s]] BY DEF Requests
  <2> QED BY <1>1, <2>1
<1> QED BY <1>1, <1>2

LEMMA EstablishedKept ==
  ASSUME NEW q, NEW r, SameBut(q, r), Established(r)
  PROVE  Established(q)
BY DEF SameBut, Established

LEMMA GuessesSame ==
  ASSUME NEW q, NEW r, \A s \in Slots : SameBut(q[s], r[s]), NEW n
  PROVE  Guesses(n, q) = Guesses(n, r)
BY DEF SameBut, Guesses

LEMMA GuessesFinite ==
  ASSUME AuthAssumption, NEW n, NEW req
  PROVE  /\ IsFiniteSet(Guesses(n, req)) /\ Cardinality(Guesses(n, req)) \in Nat
         /\ Cardinality(Guesses(n, req)) <= Cardinality(Slots) /\ Cardinality(Slots) \in Nat
<1>1. IsFiniteSet(Slots) BY DEF AuthAssumption
<1>2. IsFiniteSet(Guesses(n, req)) /\ Cardinality(Guesses(n, req)) <= Cardinality(Slots)
  BY <1>1, FS_Subset DEF Guesses
<1> QED BY <1>1, <1>2, FS_CardinalityType

(* Slot s goes on as r, the others stay.                                     *)
LEMMA SlotFacts ==
  ASSUME AuthTypes, RequestsOK, NEW s \in Slots, NEW r \in RequestRec, Goto(s, r),
         \/ Established(r)
         \/ /\ r.pc = "clear" /\ r.name \in Names /\ r.name # None /\ r.user \in Users
            /\ r.seen \/ Justified(r.name, r.pwd, row')
  PROVE  /\ request' \in [Slots -> RequestRec] /\ RequestsOK'
         /\ \A n : Guesses(n, request') = Guesses(n, [request EXCEPT ![s] = r])
<1> DEFINE next == [request EXCEPT ![s] = r]
<1>1. next \in [Slots -> RequestRec] /\ next[s] = r /\ \A t \in Slots : t # s => next[t] = request[t]
  BY DEF AuthTypes
<1>2. Requests(next) BY DEF Goto
<1> HIDE DEF next
<1>3. /\ request' \in [Slots -> RequestRec]
      /\ \A t \in Slots :
           /\ SameBut(request'[t], next[t])
           /\ next[t].name # None /\ Justified(next[t].name, next[t].pwd, row') => request'[t].ok
  BY <1>1, <1>2, RequestsFacts
<1>4. \A n : Guesses(n, request') = Guesses(n, next) BY <1>3, GuessesSame
<1>5. ASSUME NEW t \in Slots PROVE Established(request'[t])
  <2>1. CASE t # s BY <1>1, <1>3, <2>1, EstablishedKept DEF RequestsOK
  <2>2. CASE t = s /\ Established(r) BY <1>1, <1>3, <2>2, EstablishedKept
  <2>3. CASE /\ t = s /\ r.pc = "clear" /\ r.name \in Names /\ r.name # None /\ r.user \in Users
             /\ r.seen \/ Justified(r.name, r.pwd, row')
    <3>1. SameBut(request'[t], r) /\ (Justified(r.name, r.pwd, row') => request'[t].ok) BY <1>1, <1>3, <2>3
    <3> QED BY <2>3, <3>1 DEF SameBut, Established
  <2> QED BY <2>1, <2>2, <2>3
<1> QED BY <1>3, <1>4, <1>5 DEF RequestsOK, next

(* A step of no request.                                                     *)
LEMMA IdleFacts ==
  ASSUME AuthTypes, RequestsOK, Requests(request)
  PROVE  /\ request' \in [Slots -> RequestRec] /\ RequestsOK'
         /\ \A n : Guesses(n, request') = Guesses(n, request)
<1>1. /\ request' \in [Slots -> RequestRec] /\ \A t \in Slots : SameBut(request'[t], request[t])
  BY RequestsFacts DEF AuthTypes
<1>2. \A n : Guesses(n, request') = Guesses(n, request) BY <1>1, GuessesSame
<1>3. RequestsOK' BY <1>1, EstablishedKept DEF RequestsOK
<1> QED BY <1>1, <1>2, <1>3

(* A step that counts nothing keeps the guesses bounded, if it starts none   *)
(* without a delay for a name that has failures.                             *)
LEMMA GuessesKept ==
  ASSUME AuthAssumption, AuthTypes, GuessesCounted, UNCHANGED <<attempts, undelayed>>,
         \A n \in Names : attempts[n] # None /\ attempts[n].count < ShiftLimit =>
           Guesses(n, request') \subseteq Guesses(n, request)
  PROVE  GuessesCounted'
<1> SUFFICES ASSUME NEW n \in Names, attempts[n] # None, attempts[n].count < ShiftLimit
             PROVE  undelayed[n] + Cardinality(Guesses(n, request')) <= Cardinality(Slots)
  BY DEF GuessesCounted
<1>1. undelayed[n] + Cardinality(Guesses(n, request)) <= Cardinality(Slots) BY DEF GuessesCounted
<1>2. /\ IsFiniteSet(Guesses(n, request)) /\ Cardinality(Guesses(n, request)) \in Nat
      /\ Cardinality(Guesses(n, request')) \in Nat /\ Cardinality(Slots) \in Nat
  BY GuessesFinite
<1>3. Cardinality(Guesses(n, request')) <= Cardinality(Guesses(n, request)) BY <1>2, FS_Subset
<1>4. undelayed[n] \in Nat BY DEF AuthTypes
<1> QED BY <1>1, <1>2, <1>3, <1>4

(* The tables.                                                               *)
Tables ==
  /\ row \in [Users -> RowRec \cup {None, Deleted}] /\ NamesUnique
  /\ totp \in [Challenges -> TotpRec \cup {None}]
  /\ tokens \subseteq Sessions /\ SessionsOK

LEMMA TablesKept ==
  AuthIInv /\ UNCHANGED <<row, totp, sessions, tokens>> => Tables'
BY DEF AuthIInv, AuthTypes, Tables, NamesUnique, GetUserByID, SessionsOK

(* A slot's next request opens no undelayed guess.                           *)
Quiet(s, r) ==
  \/ r.pc \notin {"user", "fail"} \/ r.delayed
  \/ r.name = request[s].name /\ r.delayed = request[s].delayed /\ request[s].pc \in {"user", "fail"}

LEMMA QuietGuesses ==
  ASSUME AuthTypes, NEW s \in Slots, NEW r, Quiet(s, r), NEW n
  PROVE  Guesses(n, [request EXCEPT ![s] = r]) \subseteq Guesses(n, request)
BY DEF AuthTypes, Quiet, Guesses

LEMMA SlotStep ==
  ASSUME AuthAssumption, AuthIInv, NEW s \in Slots, NEW r \in RequestRec, Goto(s, r), Quiet(s, r),
         \/ Established(r)
         \/ /\ r.pc = "clear" /\ r.name \in Names /\ r.name # None /\ r.user \in Users
            /\ r.seen \/ Justified(r.name, r.pwd, row'),
         UNCHANGED <<attempts, undelayed>>, Tables'
  PROVE  AuthIInv'
<1>0. AuthTypes /\ RequestsOK /\ GuessesCounted BY DEF AuthIInv
<1>1. /\ request' \in [Slots -> RequestRec] /\ RequestsOK'
      /\ \A n : Guesses(n, request') = Guesses(n, [request EXCEPT ![s] = r])
  BY <1>0, SlotFacts
<1>2. GuessesCounted' BY <1>0, <1>1, QuietGuesses, GuessesKept
<1>3. AuthTypes' BY <1>0, <1>1 DEF AuthTypes, Tables
<1> QED BY <1>1, <1>2, <1>3 DEF AuthIInv, Tables

LEMMA ReturnStep ==
  ASSUME AuthAssumption, AuthIInv, NEW s \in Slots, Return(s), UNCHANGED <<attempts, undelayed>>, Tables'
  PROVE  AuthIInv'
<1>1. Goto(s, Free) BY DEF Return
<1>2. Quiet(s, Free) BY FreeFacts DEF Quiet
<1> QED BY <1>1, <1>2, FreeFacts, SlotStep

LEMMA IdleStep ==
  ASSUME AuthAssumption, AuthIInv, Requests(request), UNCHANGED <<attempts, undelayed>>, Tables'
  PROVE  AuthIInv'
<1>0. AuthTypes /\ RequestsOK /\ GuessesCounted BY DEF AuthIInv
<1>1. /\ request' \in [Slots -> RequestRec] /\ RequestsOK'
      /\ \A n : Guesses(n, request') = Guesses(n, request)
  BY <1>0, IdleFacts
<1>2. GuessesCounted' BY <1>0, <1>1, GuessesKept
<1>3. AuthTypes' BY <1>0, <1>1 DEF AuthTypes, Tables
<1> QED BY <1>1, <1>2, <1>3 DEF AuthIInv, Tables

(* Failures of a name are forgotten.                                         *)
LEMMA ForgetGuesses ==
  ASSUME AuthAssumption, AuthTypes, GuessesCounted, NEW n \in Names, Forget(n),
         \A m : Guesses(m, request') \subseteq Guesses(m, request)
  PROVE  /\ attempts' \in [Names -> AttemptRec \cup {None}] /\ undelayed' \in [Names -> Nat]
         /\ GuessesCounted'
<1>1. /\ attempts' \in [Names -> AttemptRec \cup {None}] /\ undelayed' \in [Names -> Nat]
      /\ attempts'[n] = None /\ undelayed'[n] = 0
      /\ \A m \in Names : m # n => attempts'[m] = attempts[m] /\ undelayed'[m] = undelayed[m]
  BY DEF AuthTypes, Forget
<1>2. ASSUME NEW m \in Names
      PROVE  /\ attempts'[m] = None => undelayed'[m] = 0
             /\ attempts'[m] # None /\ attempts'[m].count < ShiftLimit =>
                  undelayed'[m] + Cardinality(Guesses(m, request')) <= Cardinality(Slots)
             /\ attempts'[m] # None /\ attempts'[m].count = ShiftLimit => undelayed'[m] <= Cardinality(Slots)
  <2>1. CASE m = n BY <1>1, <2>1
  <2>2. CASE m # n
    <3>1. attempts'[m] = attempts[m] /\ undelayed'[m] = undelayed[m] /\ undelayed[m] \in Nat BY <1>1, <2>2 DEF AuthTypes
    <3>2. /\ IsFiniteSet(Guesses(m, request)) /\ Cardinality(Guesses(m, request)) \in Nat
          /\ Cardinality(Guesses(m, request')) \in Nat /\ Cardinality(Slots) \in Nat
      BY GuessesFinite
    <3>3. Cardinality(Guesses(m, request')) <= Cardinality(Guesses(m, request)) BY <3>2, FS_Subset
    <3>4. ASSUME attempts[m] # None, attempts[m].count < ShiftLimit
          PROVE  undelayed[m] + Cardinality(Guesses(m, request')) <= Cardinality(Slots)
      <4>1. undelayed[m] + Cardinality(Guesses(m, request)) <= Cardinality(Slots) BY <3>4 DEF GuessesCounted
      <4> QED BY <3>1, <3>2, <3>3, <4>1
    <3> QED BY <3>1, <3>4 DEF GuessesCounted
  <2> QED BY <2>1, <2>2
<1> QED BY <1>1, <1>2 DEF GuessesCounted

LEMMA AttemptFields ==
  ASSUME AuthTypes, NEW n \in Names, attempts[n] # None
  PROVE  attempts[n] \in AttemptRec /\ attempts[n].count \in 1 .. MaxCount /\ attempts[n].locked \in BOOLEAN
<1>1. attempts[n] \in AttemptRec BY DEF AuthTypes
<1> QED BY <1>1 DEF AttemptRec

LEMMA SomeAttempt ==
  ASSUME AuthAssumption, NEW r \in AttemptRec
  PROVE  r # None
<1>1. r \in [count : Nat, locked : BOOLEAN] BY DEF AttemptRec, AuthAssumption
<1> QED BY <1>1 DEF AuthAssumption

(* A failure is counted.                                                     *)
LEMMA FailStep ==
  ASSUME AuthAssumption, AuthIInv, NEW s \in Slots, recordFailedAttempt(s)
  PROVE  AuthIInv'
<1>0. AuthTypes /\ RequestsOK /\ GuessesCounted BY DEF AuthIInv
<1> DEFINE n == request[s].name
           c == 1 + IF attempts[n] = None THEN 0 ELSE attempts[n].count
           d == request[s].delayed
           a == [count |-> c, locked |-> c >= MaxAttempts]
<1>1. /\ request[s].pc = "fail" /\ c <= MaxCount /\ attempts' = [attempts EXCEPT ![n] = a]
      /\ undelayed' = [undelayed EXCEPT ![n] = IF d THEN @ ELSE @ + 1]
      /\ UNCHANGED <<row, totp, sessions, tokens>> /\ Goto(s, Free)
  BY DEF recordFailedAttempt, At, Return
<1>2. n \in Names /\ request[s] \in RequestRec /\ d \in BOOLEAN
  BY <1>0, <1>1, RequestFields DEF AuthTypes, RequestsOK, Established
<1>3. c \in 1 .. MaxCount
  <2>1. CASE attempts[n] = None
    <3>1. c = 1 BY <2>1
    <3> HIDE DEF c
    <3> QED BY <1>1, <3>1 DEF AuthAssumption
  <2>2. CASE attempts[n] # None
    <3>1. attempts[n].count \in 1 .. MaxCount BY <1>0, <1>2, <2>2, AttemptFields
    <3>2. c = 1 + attempts[n].count BY <2>2
    <3> HIDE DEF c
    <3> QED BY <1>1, <3>1, <3>2 DEF AuthAssumption
  <2> QED BY <2>1, <2>2
<1>4. a \in AttemptRec /\ a.count = c /\ a # None
  <2>1. (c >= MaxAttempts) \in BOOLEAN OBVIOUS
  <2> HIDE DEF c
  <2>2. a \in AttemptRec /\ a.count = c BY <1>3, <2>1 DEF AttemptRec
  <2> QED BY <2>2, SomeAttempt
<1> HIDE DEF a, c, d, n
<1>5. /\ request' \in [Slots -> RequestRec] /\ RequestsOK'
      /\ \A m : Guesses(m, request') = Guesses(m, [request EXCEPT ![s] = Free])
  BY <1>0, <1>1, FreeFacts, SlotFacts
<1>6. /\ attempts' \in [Names -> AttemptRec \cup {None}] /\ attempts'[n] = a
      /\ \A m \in Names : m # n => attempts'[m] = attempts[m]
  BY <1>0, <1>1, <1>2, <1>4 DEF AuthTypes
<1>7. /\ undelayed' \in [Names -> Nat] /\ undelayed'[n] = (IF d THEN undelayed[n] ELSE undelayed[n] + 1)
      /\ \A m \in Names : m # n => undelayed'[m] = undelayed[m]
  BY <1>0, <1>1, <1>2 DEF AuthTypes
<1>8. \A m : Guesses(m, request') \subseteq Guesses(m, request)
  BY <1>0, <1>5, FreeFacts, QuietGuesses DEF Quiet
<1>9. ~d => s \in Guesses(n, request) /\ Guesses(n, request') = Guesses(n, request) \ {s}
  <2> SUFFICES ASSUME ~d PROVE s \in Guesses(n, request) /\ Guesses(n, request') = Guesses(n, request) \ {s} OBVIOUS
  <2>1. s \in Guesses(n, request) BY <1>1 DEF Guesses, d, n
  <2>2. Guesses(n, [request EXCEPT ![s] = Free]) = Guesses(n, request) \ {s}
    BY <1>0, FreeFacts DEF Guesses, AuthTypes
  <2> QED BY <1>5, <2>1, <2>2
<1>10. GuessesCounted'
  <2> SUFFICES ASSUME NEW m \in Names
               PROVE  /\ attempts'[m] = None => undelayed'[m] = 0
                      /\ attempts'[m] # None /\ attempts'[m].count < ShiftLimit =>
                           undelayed'[m] + Cardinality(Guesses(m, request')) <= Cardinality(Slots)
                      /\ attempts'[m] # None /\ attempts'[m].count = ShiftLimit => undelayed'[m] <= Cardinality(Slots)
    BY DEF GuessesCounted
  <2> DEFINE g == Cardinality(Guesses(m, request))
             h == Cardinality(Guesses(m, request'))
             z == Cardinality(Slots)
  <2>1. g \in Nat /\ h \in Nat /\ z \in Nat /\ g <= z /\ IsFiniteSet(Guesses(m, request)) BY GuessesFinite
  <2>2. h <= g BY <1>8, <2>1, FS_Subset
  <2>3. undelayed[m] \in Nat /\ ShiftLimit \in Nat \ {0} BY <1>0 DEF AuthTypes, AuthAssumption
  <2>4. CASE m # n
    <3> HIDE DEF g, h, z
    <3>1. /\ attempts[m] = None => undelayed[m] = 0
          /\ attempts[m] # None /\ attempts[m].count < ShiftLimit => undelayed[m] + g <= z
          /\ attempts[m] # None /\ attempts[m].count = ShiftLimit => undelayed[m] <= z
      BY <1>0 DEF GuessesCounted, g, z
    <3>2. attempts[m] # None /\ attempts[m].count < ShiftLimit => undelayed[m] + h <= z
      BY <2>1, <2>2, <2>3, <3>1
    <3> QED BY <1>6, <1>7, <2>4, <3>1, <3>2 DEF h, z
  <2>5. CASE m = n
    <3>1. ~d => h = g - 1 BY <1>9, <2>1, <2>5, FS_RemoveElement
    <3> HIDE DEF g, h, z
    <3>2. undelayed'[m] + h <= undelayed[m] + g BY <1>7, <2>1, <2>2, <2>3, <2>5, <3>1
    <3>3. undelayed'[m] \in Nat BY <1>7
    <3>4. ASSUME c <= ShiftLimit PROVE undelayed'[m] + h <= z
      <4>1. CASE attempts[m] = None
        <5>1. undelayed[m] = 0 BY <1>0, <4>1 DEF GuessesCounted
        <5> QED BY <2>1, <2>3, <3>2, <3>3, <5>1
      <4>2. CASE attempts[m] # None
        <5>1. attempts[m].count < ShiftLimit
          <6>1. attempts[m].count \in 1 .. MaxCount BY <1>0, <4>2, AttemptFields
          <6>2. c = 1 + attempts[m].count BY <2>5, <4>2 DEF c
          <6> QED BY <2>3, <3>4, <6>1, <6>2 DEF AuthAssumption
        <5>2. undelayed[m] + g <= z BY <1>0, <4>2, <5>1 DEF GuessesCounted, g, z
        <5> QED BY <2>1, <2>3, <3>2, <3>3, <5>2
      <4> QED BY <4>1, <4>2
    <3>5. c \in Nat BY <1>3 DEF AuthAssumption
    <3>6. c < ShiftLimit => undelayed'[m] + h <= z BY <2>3, <3>4, <3>5
    <3>7. c = ShiftLimit => undelayed'[m] <= z
      <4> SUFFICES ASSUME c = ShiftLimit PROVE undelayed'[m] <= z OBVIOUS
      <4>1. undelayed'[m] + h <= z BY <2>3, <3>4
      <4> QED BY <2>1, <3>3, <4>1
    <3>8. attempts'[m] # None /\ attempts'[m].count = c BY <1>4, <1>6, <2>5
    <3> QED BY <3>6, <3>7, <3>8 DEF h, z
  <2> QED BY <2>4, <2>5
<1>11. Tables' BY <1>1, TablesKept
<1>12. AuthTypes' BY <1>5, <1>6, <1>7, <1>11 DEF AuthTypes, Tables
<1> QED BY <1>5, <1>10, <1>11, <1>12 DEF AuthIInv, Tables

(* A guess without a delay starts only where no failure is counted, or where *)
(* the delay has overflowed.                                                 *)
LEMMA LoginBegins ==
  ASSUME AuthAssumption, AuthIInv, NEW s \in Slots, login(s)
  PROVE  AuthIInv'
<1>0. AuthTypes /\ RequestsOK /\ GuessesCounted BY DEF AuthIInv
<1>1. PICK n \in Names, p \in Passwords, wait \in BOOLEAN :
        /\ (wait = checkBruteForce(n)) \/ DelayOverflows(n)
        /\ Goto(s, [Free EXCEPT !.pc = "user", !.name = n, !.pwd = p, !.delayed = wait])
  BY DEF login
<1> DEFINE r == [Free EXCEPT !.pc = "user", !.name = n, !.pwd = p, !.delayed = wait]
<1>2. r \in RequestRec /\ r.pc = "user" /\ r.name = n /\ r.pwd = p /\ (r.delayed <=> wait)
  BY DEF Free, RequestRec, Labels
<1>3. Goto(s, r) BY <1>1
<1> HIDE DEF r
<1>4. Established(r) BY <1>2 DEF Established
<1>5. /\ request' \in [Slots -> RequestRec] /\ RequestsOK'
      /\ \A m : Guesses(m, request') = Guesses(m, [request EXCEPT ![s] = r])
  BY <1>0, <1>2, <1>3, <1>4, SlotFacts
<1>6. UNCHANGED <<row, attempts, totp, sessions, tokens, undelayed>> BY DEF login
<1>7. ASSUME NEW m \in Names, attempts[m] # None, attempts[m].count < ShiftLimit
      PROVE  Guesses(m, request') \subseteq Guesses(m, request)
  <2>1. CASE m # n
    <3>1. Guesses(m, [request EXCEPT ![s] = r]) \subseteq Guesses(m, request)
      BY <1>0, <1>2, <2>1 DEF Guesses, AuthTypes
    <3> QED BY <1>5, <3>1
  <2>2. CASE m = n
    <3>1. ~DelayOverflows(n)
      <4>1. attempts[n].count \in 1 .. MaxCount BY <1>0, <1>7, <2>2, AttemptFields
      <4> QED BY <1>7, <2>2, <4>1 DEF DelayOverflows, AuthAssumption
    <3>2. r.delayed BY <1>1, <1>2, <1>7, <2>2, <3>1 DEF checkBruteForce
    <3> QED BY <1>0, <1>5, <3>2, QuietGuesses DEF Quiet
  <2> QED BY <2>1, <2>2
<1>8. GuessesCounted' BY <1>0, <1>6, <1>7, GuessesKept
<1>9. Tables' BY <1>6, TablesKept
<1>10. AuthTypes' BY <1>0, <1>5, <1>6, <1>9 DEF AuthTypes, Tables
<1> QED BY <1>5, <1>8, <1>9, <1>10 DEF AuthIInv, Tables

(* The row that is read is the only one of the name; if it is active, has    *)
(* the password and asks for no new one, the login is justified.             *)
LEMMA LoginReads ==
  ASSUME AuthAssumption, AuthIInv, NEW s \in Slots, Login(s)
  PROVE  AuthIInv'
<1>0. AuthTypes /\ RequestsOK /\ NamesUnique BY DEF AuthIInv
<1> DEFINE r == request[s]
           Found == GetUserByUsername(r.name)
<1>1. r.pc = "user" /\ UNCHANGED <<row, attempts, totp, sessions, tokens, undelayed>> BY DEF Login, At
<1>2. Tables' BY <1>1, TablesKept
<1>3. r \in RequestRec /\ r.name \in Names /\ r.pwd \in Passwords
  BY <1>0, <1>1 DEF AuthTypes, RequestsOK, Established
<1>4. CASE Return(s) BY <1>1, <1>2, <1>4, ReturnStep
<1>5. CASE Goto(s, [r EXCEPT !.pc = "fail", !.pwd = None, !.ok = FALSE])
  <2> DEFINE q == [r EXCEPT !.pc = "fail", !.pwd = None, !.ok = FALSE]
  <2>1. q \in RequestRec /\ q.pc = "fail" /\ q.name = r.name /\ q.delayed = r.delayed
    BY <1>3 DEF RequestRec, Labels
  <2>2. Goto(s, q) BY <1>5
  <2> HIDE DEF q
  <2>3. Established(q) BY <1>3, <2>1 DEF Established
  <2>4. Quiet(s, q) BY <1>1, <2>1 DEF Quiet
  <2> QED BY <1>1, <1>2, <2>1, <2>2, <2>3, <2>4, SlotStep
<1>6. CASE /\ \A u \in Found : row[u].status \notin Barred
           /\ \E u \in Found : row[u].pwd = r.pwd
           /\ \E u \in Found : Goto(s, [r EXCEPT !.pc = "clear", !.user = u, !.seen = row[u].change])
  <2>1. PICK u \in Found : Goto(s, [r EXCEPT !.pc = "clear", !.user = u, !.seen = row[u].change]) BY <1>6
  <2>2. u \in Users /\ row[u] \notin {None, Deleted} /\ NameOf[u] = r.name
    BY <2>1 DEF GetUserByUsername, GetUserByID
  <2>3. row[u] \in RowRec BY <1>0, <2>2 DEF AuthTypes
  <2>4. row[u].status \notin {"disabled", "locked"} BY <1>6, <2>1 DEF Barred
  <2>5. row[u].pwd = r.pwd
    <3>1. PICK v \in Found : row[v].pwd = r.pwd BY <1>6
    <3>2. v = u BY <1>0, <2>1, <3>1 DEF GetUserByUsername, NamesUnique
    <3> QED BY <3>1, <3>2
  <2>6. row[u].change \in BOOLEAN /\ row[u] = [status |-> row[u].status, pwd |-> row[u].pwd, change |-> row[u].change]
    BY <2>3 DEF RowRec
  <2> DEFINE q == [r EXCEPT !.pc = "clear", !.user = u, !.seen = row[u].change]
  <2>7. /\ q \in RequestRec /\ q.pc = "clear" /\ q.name = r.name /\ q.pwd = r.pwd /\ q.user = u /\ q.seen = row[u].change
    <3>1. \A b \in BOOLEAN : LET t == [r EXCEPT !.pc = "clear", !.user = u, !.seen = b]
                           IN  /\ t \in RequestRec /\ t.pc = "clear" /\ t.name = r.name /\ t.pwd = r.pwd
                               /\ t.user = u /\ t.seen = b
      <4> HIDE DEF r
      <4> QED BY <1>3, <2>2 DEF RequestRec, Labels
    <3> QED BY <2>6, <3>1
  <2>8. Goto(s, q) BY <2>1
  <2> HIDE DEF q
  <2>9. q.seen \/ Justified(q.name, q.pwd, row')
    <3> SUFFICES ASSUME ~row[u].change PROVE Justified(q.name, q.pwd, row') BY <2>7
    <3>1. row[u].pwd = q.pwd BY <2>5, <2>7
    <3> QED BY <1>1, <2>2, <2>4, <2>7, <3>1 DEF Justified
  <2>10. Quiet(s, q) BY <2>7 DEF Quiet
  <2>11. q.name \in Names /\ q.name # None /\ q.user \in Users BY <1>3, <2>2, <2>7 DEF AuthAssumption
  <2> QED BY <1>1, <1>2, <2>7, <2>8, <2>9, <2>10, <2>11, SlotStep
<1> QED BY <1>4, <1>5, <1>6 DEF Login

LEMMA LoginCleared ==
  ASSUME AuthAssumption, AuthIInv, NEW s \in Slots, clearFailedAttempts(s)
  PROVE  AuthIInv'
<1>0. AuthTypes /\ RequestsOK /\ GuessesCounted BY DEF AuthIInv
<1> DEFINE r == request[s]
           q == [Free EXCEPT !.pc = IF r.user \in Totp THEN "challenge" ELSE "session",
                             !.user = r.user, !.ok = r.ok]
<1>1. r.pc = "clear" /\ Forget(r.name) /\ UNCHANGED <<row, totp, sessions, tokens>> BY DEF clearFailedAttempts, At
<1>2. r \in RequestRec /\ r.name \in Names /\ r.user \in Users /\ (r.seen \/ r.ok)
  BY <1>0, <1>1 DEF AuthTypes, RequestsOK, Established
<1>3. /\ q \in RequestRec /\ q.pc = (IF r.user \in Totp THEN "challenge" ELSE "session")
      /\ q.user = r.user /\ q.ok = r.ok
  <2>1. r.ok \in BOOLEAN BY <1>2, RequestFields
  <2> QED BY <1>2, <2>1 DEF Free, RequestRec, Labels
<1>4. Return(s) \/ (~r.seen /\ Goto(s, q)) BY DEF clearFailedAttempts
<1> HIDE DEF q
<1>5. ~r.seen => Established(q) BY <1>2, <1>3 DEF Established
<1>6. PICK x \in {Free, q} : x \in RequestRec /\ Goto(s, x) /\ Established(x) /\ Quiet(s, x)
  <2>1. Quiet(s, Free) BY FreeFacts DEF Quiet
  <2>2. Quiet(s, q) BY <1>3 DEF Quiet
  <2> QED BY <1>3, <1>4, <1>5, <2>1, <2>2, FreeFacts DEF Return
<1>7. /\ request' \in [Slots -> RequestRec] /\ RequestsOK'
      /\ \A m : Guesses(m, request') = Guesses(m, [request EXCEPT ![s] = x])
  BY <1>0, <1>6, SlotFacts
<1>8. \A m : Guesses(m, request') \subseteq Guesses(m, request) BY <1>0, <1>6, <1>7, QuietGuesses
<1>9. /\ attempts' \in [Names -> AttemptRec \cup {None}] /\ undelayed' \in [Names -> Nat]
      /\ GuessesCounted'
  BY <1>0, <1>1, <1>2, <1>8, ForgetGuesses
<1>10. Tables' BY <1>1, TablesKept
<1>11. AuthTypes' BY <1>7, <1>9, <1>10 DEF AuthTypes, Tables
<1> QED BY <1>7, <1>9, <1>10, <1>11 DEF AuthIInv, Tables

LEMMA CleanupStep ==
  ASSUME AuthAssumption, AuthIInv, NEW n \in Names, cleanupFailedAttempts(n) \/ LockEnds(n)
  PROVE  AuthIInv'
<1>0. AuthTypes /\ RequestsOK /\ GuessesCounted BY DEF AuthIInv
<1>1. Requests(request) /\ UNCHANGED <<row, totp, sessions, tokens>> BY DEF cleanupFailedAttempts, LockEnds
<1>2. /\ request' \in [Slots -> RequestRec] /\ RequestsOK'
      /\ \A m : Guesses(m, request') = Guesses(m, request)
  BY <1>0, <1>1, IdleFacts
<1>3. Tables' BY <1>1, TablesKept
<1>4. /\ attempts' \in [Names -> AttemptRec \cup {None}] /\ undelayed' \in [Names -> Nat]
      /\ GuessesCounted'
  <2>1. CASE Forget(n) BY <1>0, <1>2, <2>1, ForgetGuesses
  <2>2. CASE LockEnds(n)
    <3> DEFINE a == [attempts[n] EXCEPT !.locked = FALSE]
    <3>1. /\ attempts[n] # None /\ attempts' = [attempts EXCEPT ![n] = a] /\ undelayed' = undelayed
      BY <2>2 DEF LockEnds
    <3>2. attempts[n] \in AttemptRec BY <1>0, <3>1, AttemptFields
    <3>3. a \in AttemptRec /\ a.count = attempts[n].count BY <3>2 DEF AttemptRec
    <3>4. a # None BY <3>3, SomeAttempt
    <3> HIDE DEF a
    <3>5. /\ attempts' \in [Names -> AttemptRec \cup {None}] /\ attempts'[n] = a
          /\ \A m \in Names : m # n => attempts'[m] = attempts[m]
      BY <1>0, <3>1, <3>3 DEF AuthTypes
    <3>6. \A m \in Names : /\ attempts'[m] = None <=> attempts[m] = None
                           /\ attempts'[m].count = attempts[m].count
      BY <3>1, <3>3, <3>4, <3>5
    <3>7. GuessesCounted' BY <1>0, <1>2, <3>1, <3>6 DEF GuessesCounted
    <3> QED BY <1>0, <3>1, <3>5, <3>7 DEF AuthTypes
  <2> QED BY <2>1, <2>2 DEF cleanupFailedAttempts
<1>5. AuthTypes' BY <1>2, <1>3, <1>4 DEF AuthTypes, Tables
<1> QED BY <1>2, <1>3, <1>4, <1>5 DEF AuthIInv, Tables

(* The second factor.                                                        *)
LEMMA TotpSteps ==
  ASSUME AuthAssumption, AuthIInv, NEW s \in Slots,
         createTOTPSession(s) \/ verifyTOTP(s) \/ LoginWithTOTP(s) \/ clearTOTPSession(s)
  PROVE  AuthIInv'
<1>0. AuthTypes /\ RequestsOK BY DEF AuthIInv
<1> DEFINE r == request[s]
<1>a. r \in RequestRec /\ Established(r) BY <1>0 DEF AuthTypes, RequestsOK
<1>b. totp \in [Challenges -> TotpRec \cup {None}] BY <1>0 DEF AuthTypes
<1>1. CASE createTOTPSession(s)
  <2>1. PICK k \in Challenges : totp' = [totp EXCEPT ![k] = [user |-> r.user, ok |-> r.ok]]
    BY <1>1 DEF createTOTPSession
  <2>2. r.user \in Totp /\ r.ok = TRUE
    BY <1>1, <1>a, RequestFields DEF createTOTPSession, At, Established
  <2>3. [user |-> r.user, ok |-> r.ok] \in TotpRec BY <2>2 DEF TotpRec
  <2>4. totp' \in [Challenges -> TotpRec \cup {None}] BY <1>b, <2>1, <2>3
  <2>5. Tables' BY <1>1, <2>4
    DEF createTOTPSession, AuthIInv, AuthTypes, Tables, NamesUnique, GetUserByID, SessionsOK
  <2> QED BY <1>1, <2>5, ReturnStep DEF createTOTPSession
<1>2. CASE verifyTOTP(s)
  <2>1. PICK k \in Challenges :
          /\ verifyTOTPSession(k)
          /\ Goto(s, [Free EXCEPT !.pc = "code", !.id = k, !.user = totp[k].user, !.ok = totp[k].ok])
    BY <1>2 DEF verifyTOTP
  <2>2. totp[k] \in TotpRec BY <1>b, <2>1 DEF verifyTOTPSession
  <2>3. totp[k].user \in Totp /\ totp[k].user \in Users /\ totp[k].ok = TRUE BY <2>2 DEF TotpRec, AuthAssumption
  <2> DEFINE q == [Free EXCEPT !.pc = "code", !.id = k, !.user = totp[k].user, !.ok = totp[k].ok]
  <2>4. q \in RequestRec /\ q.pc = "code" /\ q.id = k /\ q.user = totp[k].user /\ q.ok = TRUE
    BY <2>3 DEF Free, RequestRec, Labels
  <2>5. Goto(s, q) BY <2>1
  <2> HIDE DEF q
  <2>6. Established(q) /\ Quiet(s, q) BY <2>3, <2>4 DEF Established, Quiet
  <2>7. Tables' BY <1>2, TablesKept DEF verifyTOTP
  <2> QED BY <1>2, <2>4, <2>5, <2>6, <2>7, SlotStep DEF verifyTOTP
<1>3. CASE LoginWithTOTP(s)
  <2>1. Tables' BY <1>3, TablesKept DEF LoginWithTOTP
  <2>2. CASE Return(s) BY <1>3, <2>1, <2>2, ReturnStep DEF LoginWithTOTP
  <2> DEFINE q == [r EXCEPT !.pc = "cleartotp", !.code = TRUE]
  <2>3. CASE Goto(s, q)
    <3>1. /\ q \in RequestRec /\ q.pc = "cleartotp" /\ q.code = TRUE
          /\ q.user = r.user /\ q.ok = r.ok /\ q.id = r.id
      BY <1>a DEF RequestRec, Labels
    <3> HIDE DEF q
    <3>2. r.ok /\ r.user \in Totp /\ r.id \in Challenges BY <1>3, <1>a DEF LoginWithTOTP, At, Established
    <3>3. Established(q) /\ Quiet(s, q) BY <3>1, <3>2 DEF Established, Quiet
    <3> QED BY <1>3, <2>1, <2>3, <3>1, <3>3, SlotStep DEF LoginWithTOTP
  <2> QED BY <1>3, <2>2, <2>3 DEF LoginWithTOTP
<1>4. CASE clearTOTPSession(s)
  <2> DEFINE q == [r EXCEPT !.pc = "session", !.id = None]
  <2>1. r.ok /\ r.code /\ r.user \in Totp /\ r.user \in Users /\ r.id \in Challenges
    BY <1>4, <1>a DEF clearTOTPSession, At, Established, AuthAssumption
  <2>2. q \in RequestRec /\ q.pc = "session" /\ q.user = r.user /\ q.ok = r.ok /\ q.code = r.code
    BY <1>a DEF RequestRec, Labels
  <2>3. Goto(s, q) BY <1>4 DEF clearTOTPSession
  <2> HIDE DEF q
  <2>4. Established(q) /\ Quiet(s, q) BY <2>1, <2>2 DEF Established, Quiet
  <2>5. totp' \in [Challenges -> TotpRec \cup {None}] BY <1>4, <1>b DEF clearTOTPSession
  <2>6. Tables' BY <1>4, <2>5
    DEF clearTOTPSession, AuthIInv, AuthTypes, Tables, NamesUnique, GetUserByID, SessionsOK
  <2> QED BY <1>4, <2>2, <2>3, <2>4, <2>6, SlotStep DEF clearTOTPSession
<1> QED BY <1>1, <1>2, <1>3, <1>4

(* Sessions and their tokens.                                                *)
LEMMA SessionSteps ==
  ASSUME AuthAssumption, AuthIInv, NEW s \in Slots, newSession(s) \/ GenerateTokenPair(s)
  PROVE  AuthIInv'
<1>0. AuthTypes /\ RequestsOK /\ SessionsOK BY DEF AuthIInv
<1> DEFINE r == request[s]
<1>a. r \in RequestRec /\ Established(r) BY <1>0 DEF AuthTypes, RequestsOK
<1>1. CASE newSession(s)
  <2>0. UNCHANGED <<row, attempts, totp, tokens, undelayed>> /\ r.pc = "session" BY <1>1 DEF newSession, At
  <2>1. CASE UNCHANGED sessions /\ Return(s) BY <2>0, <2>1, TablesKept, ReturnStep
  <2>2. ASSUME NEW k \in Sessions, CreateSession(k, r.user, r.ok, r.code),
               Goto(s, [Free EXCEPT !.pc = "token", !.id = k])
        PROVE  AuthIInv'
    <3> DEFINE q == [Free EXCEPT !.pc = "token", !.id = k]
               x == [user |-> r.user, refresh |-> <<k>>, ok |-> r.ok, code |-> r.code]
    <3>1. q \in RequestRec /\ q.pc = "token" /\ q.id = k BY DEF Free, RequestRec, Labels
    <3>2. r.ok /\ r.user \in Users /\ (r.user \in Totp => r.code) BY <1>a, <2>0 DEF Established
    <3>3. x.user = r.user /\ x.ok = r.ok /\ x.code = r.code OBVIOUS
    <3>4. sessions' = [sessions EXCEPT ![k] = x] BY <2>2 DEF CreateSession
    <3> HIDE DEF q, x
    <3>5. SessionsOK'
      <4> SUFFICES ASSUME NEW j \in Sessions, sessions'[j] # None
                   PROVE  sessions'[j].user \in Users /\ sessions'[j].ok
                          /\ (sessions'[j].user \in Totp => sessions'[j].code)
        BY DEF SessionsOK
      <4>1. sessions'[j] = sessions[j] \/ sessions'[j] = x BY <3>4
      <4> QED BY <1>0, <3>2, <3>3, <4>1 DEF SessionsOK
    <3>6. Tables' BY <2>0, <3>5 DEF AuthIInv, AuthTypes, Tables, NamesUnique, GetUserByID
    <3>7. Goto(s, q) BY <2>2 DEF q
    <3>8. Established(q) /\ Quiet(s, q) BY <3>1 DEF Established, Quiet
    <3> QED BY <2>0, <3>1, <3>6, <3>7, <3>8, SlotStep
  <2> QED BY <1>1, <2>1, <2>2 DEF newSession
<1>2. CASE GenerateTokenPair(s)
  <2>1. r.id \in Sessions BY <1>2, <1>a DEF GenerateTokenPair, At, Established
  <2>2. Tables' BY <1>2, <2>1
    DEF GenerateTokenPair, AuthIInv, AuthTypes, Tables, NamesUnique, GetUserByID, SessionsOK
  <2> QED BY <1>2, <2>2, ReturnStep DEF GenerateTokenPair
<1> QED BY <1>1, <1>2

(* Steps of time and of other handlers on totp, sessions and tokens.         *)
LEMMA ExpirySteps ==
  ASSUME AuthAssumption, AuthIInv,
         \/ \E k \in Challenges : cleanupTOTPSessions(k)
         \/ \E k \in Sessions : logout(k) \/ refresh(k) \/ TokenExpires(k)
         \/ CleanupExpiredSessions
  PROVE  AuthIInv'
<1>0. AuthTypes /\ RequestsOK /\ SessionsOK /\ NamesUnique BY DEF AuthIInv
<1>1. ASSUME NEW k \in Challenges, cleanupTOTPSessions(k) PROVE AuthIInv'
  <2>1. totp' \in [Challenges -> TotpRec \cup {None}] BY <1>0, <1>1 DEF cleanupTOTPSessions, AuthTypes
  <2>2. Tables' BY <1>0, <1>1, <2>1
    DEF cleanupTOTPSessions, AuthTypes, Tables, NamesUnique, GetUserByID, SessionsOK
  <2> QED BY <1>1, <2>2, IdleStep DEF cleanupTOTPSessions
<1>2. ASSUME NEW k \in Sessions, TokenExpires(k) PROVE AuthIInv'
  <2>1. Tables' BY <1>0, <1>2 DEF TokenExpires, AuthTypes, Tables, NamesUnique, GetUserByID, SessionsOK
  <2> QED BY <1>2, <2>1, IdleStep DEF TokenExpires
<1>3. ASSUME UNCHANGED <<row, attempts, totp, tokens, undelayed>>, Requests(request),
             \A k \in Sessions : sessions'[k] = None \/ \E j \in Sessions : sessions'[k] = sessions[j]
      PROVE  AuthIInv'
  <2>1. SessionsOK' BY <1>0, <1>3 DEF SessionsOK
  <2>2. Tables' BY <1>0, <1>3, <2>1 DEF AuthTypes, Tables, NamesUnique, GetUserByID
  <2> QED BY <1>3, <2>2, IdleStep
<1>4. ASSUME NEW k \in Sessions, logout(k) PROVE AuthIInv' BY <1>3, <1>4 DEF logout, DeleteSession
<1>5. ASSUME NEW k \in Sessions, refresh(k) PROVE AuthIInv'
  <2>1. \A j \in Sessions : sessions'[j] = None \/ \E i \in Sessions : sessions'[j] = sessions[i]
    <3>1. CASE UNCHANGED sessions BY <3>1
    <3>2. ASSUME NEW x \in Sessions, NEW j \in Sessions,
                 sessions' = [[sessions EXCEPT ![j] = sessions[x]] EXCEPT ![x] = None]
          PROVE  \A i \in Sessions : sessions'[i] = None \/ \E l \in Sessions : sessions'[i] = sessions[l]
      <4> DEFINE f == [sessions EXCEPT ![j] = sessions[x]]
      <4>1. sessions' = [f EXCEPT ![x] = None] BY <3>2
      <4>2. \A i \in Sessions : f[i] = sessions[i] \/ f[i] = sessions[x] OBVIOUS
      <4> HIDE DEF f
      <4>3. \A i \in Sessions : sessions'[i] = None \/ sessions'[i] = f[i] BY <4>1
      <4> QED BY <4>2, <4>3
    <3>3. UNCHANGED sessions \/ \E x, j \in Sessions : sessions' = [[sessions EXCEPT ![j] = sessions[x]] EXCEPT ![x] = None]
      BY <1>5 DEF refresh, Refresh, GetSessionByRefreshToken
    <3> QED BY <3>1, <3>2, <3>3
  <2> QED BY <1>3, <1>5, <2>1 DEF refresh
<1>6. CASE CleanupExpiredSessions BY <1>3, <1>6 DEF CleanupExpiredSessions
<1> QED BY <1>1, <1>2, <1>4, <1>5, <1>6

(* The handlers that change users.                                           *)

LEMMA RowFields ==
  ASSUME NEW r \in RowRec
  PROVE  r.status \in Statuses /\ r.pwd \in Passwords /\ r.change \in BOOLEAN
BY DEF RowRec

(* A row that exists is changed, and stays a row of its name.                *)
LEMMA RowChanged ==
  ASSUME AuthIInv, NEW u \in Users, GetUserByID(u), NEW r \in RowRec \cup {None, Deleted},
         row' = [row EXCEPT ![u] = r]
  PROVE  row' \in [Users -> RowRec \cup {None, Deleted}] /\ NamesUnique'
<1>1. row \in [Users -> RowRec \cup {None, Deleted}] BY DEF AuthIInv, AuthTypes
<1>2. row' \in [Users -> RowRec \cup {None, Deleted}] /\ \A v \in Users : v # u => row'[v] = row[v] BY <1>1
<1>3. \A v \in Users : GetUserByID(v)' => GetUserByID(v) BY <1>2 DEF GetUserByID
<1> QED BY <1>2, <1>3 DEF AuthIInv, NamesUnique

LEMMA PasswordChanged ==
  ASSUME AuthIInv, NEW u \in Users, GetUserByID(u), NEW p \in Passwords, UpdatePassword(u, p)
  PROVE  row' \in [Users -> RowRec \cup {None, Deleted}] /\ NamesUnique'
<1> DEFINE r == [row[u] EXCEPT !.pwd = p, !.change = FALSE]
<1>1. row' = [row EXCEPT ![u] = r] BY DEF UpdatePassword
<1>2. row[u] \in RowRec BY DEF AuthIInv, AuthTypes, GetUserByID
<1>3. r \in RowRec BY <1>2 DEF RowRec
<1> QED BY <1>1, <1>3, RowChanged

LEMMA UserSteps ==
  ASSUME AuthAssumption, AuthIInv, NEW u \in Users, createUser(u) \/ deleteUser(u) \/ updateUser(u)
  PROVE  AuthIInv'
<1>0. AuthTypes /\ SessionsOK /\ NamesUnique BY DEF AuthIInv
<1>a. row \in [Users -> RowRec \cup {None, Deleted}] BY <1>0 DEF AuthTypes
<1>1. CASE createUser(u)
  <2>1. PICK p \in Passwords : CreateUser(u, p) BY <1>1 DEF createUser
  <2> DEFINE r == [status |-> "active", pwd |-> p, change |-> FALSE]
  <2>2. row' = [row EXCEPT ![u] = r] /\ GetUserByUsername(NameOf[u]) = {} BY <2>1 DEF CreateUser
  <2>3. r \in RowRec BY DEF RowRec, AuthAssumption
  <2> HIDE DEF r
  <2>4. row' \in [Users -> RowRec \cup {None, Deleted}] /\ \A v \in Users : v # u => row'[v] = row[v]
    BY <1>a, <2>2, <2>3
  <2>5. NamesUnique'
    <3>1. \A v \in Users : GetUserByID(v)' /\ v # u => GetUserByID(v) /\ NameOf[v] # NameOf[u]
      BY <2>2, <2>4 DEF GetUserByID, GetUserByUsername
    <3> QED BY <1>0, <3>1 DEF NamesUnique
  <2>6. Tables' BY <1>0, <1>1, <2>4, <2>5 DEF createUser, AuthTypes, Tables, SessionsOK
  <2> QED BY <1>1, <2>6, IdleStep DEF createUser
<1>2. CASE deleteUser(u)
  <2>1. GetUserByID(u) /\ row' = [row EXCEPT ![u] = Deleted] BY <1>2 DEF deleteUser, DeleteUser
  <2>2. row' \in [Users -> RowRec \cup {None, Deleted}] /\ NamesUnique' BY <2>1, RowChanged
  <2>3. \A k \in Sessions : sessions'[k] = None \/ sessions'[k] = sessions[k]
    BY <1>2 DEF deleteUser, DeleteUser
  <2>4. SessionsOK' BY <1>0, <2>3 DEF SessionsOK
  <2>5. Tables' BY <1>0, <1>2, <2>2, <2>4 DEF deleteUser, AuthTypes, Tables
  <2> QED BY <1>2, <2>5, IdleStep DEF deleteUser
<1>3. CASE updateUser(u)
  <2>1. row' \in [Users -> RowRec \cup {None, Deleted}] /\ NamesUnique'
    <3>1. ASSUME NEW st \in Statuses, UpdateUser(u, st)
          PROVE  row' \in [Users -> RowRec \cup {None, Deleted}] /\ NamesUnique'
      <4> DEFINE r == [row[u] EXCEPT !.status = st]
      <4>1. row' = [row EXCEPT ![u] = r] BY <3>1 DEF UpdateUser
      <4>2. GetUserByID(u) /\ row[u] \in RowRec BY <1>3, <1>a DEF updateUser, GetUserByID
      <4>3. r \in RowRec BY <4>2 DEF RowRec
      <4> QED BY <4>1, <4>2, <4>3, RowChanged
    <3> QED BY <1>3, <3>1, PasswordChanged DEF updateUser
  <2>2. Tables' BY <1>0, <1>3, <2>1 DEF updateUser, AuthTypes, Tables, SessionsOK
  <2> QED BY <1>3, <2>2, IdleStep DEF updateUser
<1> QED BY <1>1, <1>2, <1>3

LEMMA PasswordSteps ==
  ASSUME AuthAssumption, AuthIInv, NEW s \in Slots, changePassword(s) \/ setPassword(s)
  PROVE  AuthIInv'
<1>0. AuthTypes /\ RequestsOK /\ SessionsOK /\ NamesUnique BY DEF AuthIInv
<1>1. CASE changePassword(s)
  <2>1. PICK u \in Users : Goto(s, [Free EXCEPT !.pc = "change", !.user = u]) BY <1>1 DEF changePassword
  <2> DEFINE q == [Free EXCEPT !.pc = "change", !.user = u]
  <2>2. q \in RequestRec /\ q.pc = "change" /\ q.user = u BY DEF Free, RequestRec, Labels
  <2>3. Goto(s, q) BY <2>1
  <2> HIDE DEF q
  <2>4. Established(q) /\ Quiet(s, q) BY <2>2 DEF Established, Quiet
  <2>5. Tables' BY <1>1, TablesKept DEF changePassword
  <2> QED BY <1>1, <2>2, <2>3, <2>4, <2>5, SlotStep DEF changePassword
<1>2. CASE setPassword(s)
  <2>1. request[s].user \in Users BY <1>0, <1>2 DEF setPassword, At, RequestsOK, Established
  <2>2. row' \in [Users -> RowRec \cup {None, Deleted}] /\ NamesUnique'
    <3>1. CASE GetUserByID(request[s].user) BY <1>2, <2>1, <3>1, PasswordChanged DEF setPassword
    <3>2. CASE UNCHANGED row BY <1>0, <3>2 DEF AuthTypes, NamesUnique, GetUserByID
    <3> QED BY <1>2, <3>1, <3>2 DEF setPassword
  <2>3. Tables' BY <1>0, <1>2, <2>2 DEF setPassword, AuthTypes, Tables, SessionsOK
  <2> QED BY <1>2, <2>3, ReturnStep DEF setPassword
<1> QED BY <1>1, <1>2

LEMMA AuthSteps ==
  ASSUME AuthAssumption, AuthIInv, AuthNext
  PROVE  AuthIInv'
<1>1. ASSUME NEW s \in Slots,
             \/ login(s) \/ Login(s) \/ recordFailedAttempt(s) \/ clearFailedAttempts(s)
             \/ createTOTPSession(s) \/ newSession(s) \/ GenerateTokenPair(s)
             \/ verifyTOTP(s) \/ LoginWithTOTP(s) \/ clearTOTPSession(s)
             \/ changePassword(s) \/ setPassword(s)
      PROVE  AuthIInv'
  BY <1>1, LoginBegins, LoginReads, FailStep, LoginCleared, TotpSteps, SessionSteps, PasswordSteps
<1> QED BY <1>1, CleanupStep, ExpirySteps, UserSteps DEF AuthNext

LEMMA AuthStart == AuthAssumption /\ AuthInit => AuthIInv
<1> SUFFICES ASSUME AuthAssumption, AuthInit PROVE AuthIInv OBVIOUS
<1>1. row \in [Users -> RowRec \cup {None, Deleted}]
  <2>1. [status : {"active"}, pwd : Passwords, change : BOOLEAN] \subseteq RowRec BY DEF RowRec, AuthAssumption
  <2> QED BY <2>1 DEF AuthInit
<1>2. request \in [Slots -> RequestRec] /\ \A s \in Slots : request[s] = Free BY FreeFacts DEF AuthInit
<1>3. AuthTypes BY <1>1, <1>2 DEF AuthTypes, AuthInit
<1>4. NamesUnique BY DEF NamesUnique, AuthInit, GetUserByID
<1>5. RequestsOK BY <1>2, FreeFacts DEF RequestsOK
<1>6. SessionsOK BY DEF SessionsOK, AuthInit
<1>7. GuessesCounted BY DEF GuessesCounted, AuthInit
<1> QED BY <1>3, <1>4, <1>5, <1>6, <1>7 DEF AuthIInv

LEMMA AuthImplies ==
  ASSUME AuthAssumption, AuthIInv
  PROVE  AuthTypeOK /\ SessionJustified /\ GuessesDelayed
<1>0. AuthTypes /\ SessionsOK /\ NamesUnique /\ GuessesCounted BY DEF AuthIInv
<1>1. AuthTypeOK
  <2>1. \A u \in Users : row[u] \in {None, Deleted} \/ row[u].pwd \in Passwords
    BY <1>0, RowFields DEF AuthTypes
  <2>2. \A u, v \in Users : {row[u], row[v]} \cap {None, Deleted} = {} /\ NameOf[u] = NameOf[v] => u = v
    BY <1>0 DEF NamesUnique, GetUserByID
  <2>3. \A n \in Names : attempts[n] # None => attempts[n].count \in 1 .. MaxCount BY <1>0, AttemptFields
  <2>4. \A k \in Challenges : totp[k] # None => totp[k].user \in Totp BY <1>0 DEF AuthTypes, TotpRec
  <2> QED BY <1>0, <2>1, <2>2, <2>3, <2>4 DEF AuthTypeOK, AuthTypes, SessionsOK
<1>2. SessionJustified BY <1>0 DEF SessionsOK, SessionJustified
<1>3. GuessesDelayed
  <2> SUFFICES ASSUME NEW n \in Names PROVE undelayed[n] <= Cardinality(Slots) \/ attempts[n].count > ShiftLimit
    BY DEF GuessesDelayed
  <2>1. Cardinality(Slots) \in Nat /\ Cardinality(Guesses(n, request)) \in Nat BY GuessesFinite
  <2>2. undelayed[n] \in Nat BY <1>0 DEF AuthTypes
  <2>3. CASE attempts[n] = None
    <3>1. undelayed[n] = 0 BY <1>0, <2>3 DEF GuessesCounted
    <3> QED BY <2>1, <3>1
  <2>4. CASE attempts[n] # None
    <3>1. attempts[n].count \in Nat /\ ShiftLimit \in Nat BY <1>0, <2>4, AttemptFields DEF AuthAssumption
    <3>2. CASE attempts[n].count < ShiftLimit
      <4>1. undelayed[n] + Cardinality(Guesses(n, request)) <= Cardinality(Slots)
        BY <1>0, <2>4, <3>2 DEF GuessesCounted
      <4> QED BY <2>1, <2>2, <4>1
    <3>3. CASE attempts[n].count = ShiftLimit BY <1>0, <2>4, <3>3 DEF GuessesCounted
    <3> QED BY <3>1, <3>2, <3>3
  <2> QED BY <2>3, <2>4
<1> QED BY <1>1, <1>2, <1>3

-----------------------------------------------------------------------------
(* Peers.                                                                   *)

LEMMA CallFields ==
  ASSUME NEW c \in CallRec
  PROVE  /\ c.pc \in {"idle", "save", "remember", "forget", "ping", "update"}
         /\ c.op \in {"none", "add", "discover", "remove", "health", "list"}
         /\ c.id \in PeerIDs \cup {Self, Unknown} /\ c.peer \in PeerStatus \cup {Unknown}
         /\ c.alone \in BOOLEAN
BY DEF CallRec

LEMMA NoCallFacts ==
  NoCall \in CallRec /\ NoCall.pc = "idle" /\ NoCall.alone = FALSE /\ Carries(NoCall)
<1>1. NoCall \in CallRec BY DEF NoCall, CallRec
<1>2. NoCall.pc = "idle" /\ NoCall.alone = FALSE BY DEF NoCall
<1> QED BY <1>1, <1>2 DEF Carries

(* q is the call r, but for its being alone.                                 *)
SameCall(q, r) ==
  q.pc = r.pc /\ q.op = r.op /\ q.id = r.id /\ q.peer = r.peer

LEMMA AloneReplaced ==
  ASSUME NEW c \in CallRec, NEW b \in BOOLEAN
  PROVE  /\ [c EXCEPT !.alone = b] \in CallRec /\ SameCall([c EXCEPT !.alone = b], c)
         /\ [c EXCEPT !.alone = b].alone = b
<1>1. [c EXCEPT !.alone = b] \in CallRec BY DEF CallRec
<1>2. [c EXCEPT !.alone = b].alone = b BY DEF CallRec
<1>3. SameCall([c EXCEPT !.alone = b], c) BY DEF CallRec, SameCall
<1> QED BY <1>1, <1>2, <1>3

LEMMA FirstWriteFacts ==
  ASSUME FederationTypes, NEW k \in Calls, NEW c \in CallRec, FirstWrite(k, c)
  PROVE  /\ call' \in [Calls -> CallRec]
         /\ SameCall(call'[k], c) /\ (call'[k].alone <=> Others(k, c.id) = {})
         /\ \A d \in Calls : d # k => /\ SameCall(call'[d], call[d])
                                      /\ call'[d].alone <=> call[d].alone /\ d \notin Others(k, c.id)
<1> DEFINE O == Others(k, c.id)
           b == (O = {})
<1>0. k \notin O /\ O \subseteq Calls BY DEF Others
<1>1. call \in [Calls -> CallRec] BY DEF FederationTypes
<1>2. b \in BOOLEAN OBVIOUS
<1>3. call' = [d \in Calls |-> CASE d = k -> [c EXCEPT !.alone = b]
                                [] d \in O -> [call[d] EXCEPT !.alone = FALSE]
                                [] OTHER -> call[d]]
  BY DEF FirstWrite
<1>4. b <=> O = {} OBVIOUS
<1> HIDE DEF O, b
<1>5. call'[k] = [c EXCEPT !.alone = b] BY <1>0, <1>3
<1>6. \A d \in O : call'[d] = [call[d] EXCEPT !.alone = FALSE] BY <1>0, <1>3
<1>7. \A d \in Calls : d # k /\ d \notin O => call'[d] = call[d] BY <1>3
<1>8. call'[k] \in CallRec /\ SameCall(call'[k], c) /\ (call'[k].alone <=> O = {})
  BY <1>2, <1>4, <1>5, AloneReplaced
<1>9. ASSUME NEW d \in Calls, d # k
      PROVE  /\ call'[d] \in CallRec /\ SameCall(call'[d], call[d])
             /\ call'[d].alone <=> call[d].alone /\ d \notin O
  <2>1. CASE d \in O
    <3>1. [call[d] EXCEPT !.alone = FALSE] \in CallRec /\ SameCall([call[d] EXCEPT !.alone = FALSE], call[d])
          /\ [call[d] EXCEPT !.alone = FALSE].alone = FALSE
      BY <1>1, AloneReplaced
    <3> QED BY <1>6, <2>1, <3>1
  <2>2. CASE d \notin O BY <1>1, <1>7, <1>9, <2>2 DEF SameCall
  <2> QED BY <2>1, <2>2
<1>10. call' \in [Calls -> CallRec]
  <2>1. call' = [d \in Calls |-> call'[d]] BY <1>3
  <2>2. \A d \in Calls : call'[d] \in CallRec BY <1>8, <1>9
  <2> QED BY <2>1, <2>2
<1> QED BY <1>8, <1>9, <1>10 DEF O

(* What every step owes: one call or none writes, and at its own peer.       *)
FedTables ==
  /\ table \in [PeerIDs -> Peer \cup {Unknown}] /\ peers \in [PeerIDs -> Peer \cup {Unknown}]
  /\ invites \subseteq Invites /\ started \in BOOLEAN

LEMMA FedTablesKept ==
  FederationIInv /\ UNCHANGED <<table, invites, started>> /\ peers' \in [PeerIDs -> Peer \cup {Unknown}]
    => FedTables'
BY DEF FederationIInv, FederationTypes, FedTables

(* The first write of a call.                                                *)
LEMMA FirstWriteStep ==
  ASSUME FederationIInv, NEW k \in Calls, NEW c \in CallRec, Carries(c), c.pc \in Between,
         FirstWrite(k, c), call[k].pc \notin Between, FedTables',
         \A q \in PeerIDs : q # c.id => table'[q] = table[q] /\ peers'[q] = peers[q],
         c.pc = "remember" => table'[c.id] = c.peer,
         c.pc = "forget" => table'[c.id] = Unknown,
         c.pc = "update" =>
           /\ table'[c.id] = table[c.id]
           /\ peers'[c.id] = IF peers[c.id] = Unknown THEN Unknown
                             ELSE [peers[c.id] EXCEPT !.status = c.peer.status]
  PROVE  FederationIInv'
<1>0. FederationTypes /\ CallsOK /\ AloneOK /\ HalfWritten /\ Alike BY DEF FederationIInv
<1> DEFINE p == c.id
           O == Others(k, p)
<1>1. /\ call' \in [Calls -> CallRec]
      /\ SameCall(call'[k], c) /\ (call'[k].alone <=> O = {})
      /\ \A d \in Calls : d # k => /\ SameCall(call'[d], call[d])
                                   /\ call'[d].alone <=> call[d].alone /\ d \notin O
  BY <1>0, FirstWriteFacts
<1>2. /\ unlike' = (IF O = {} THEN unlike ELSE unlike \cup {p}) BY DEF FirstWrite
<1>3. \A d \in Calls : d \in O <=> d # k /\ call[d].id = p /\ call[d].pc \in Between BY DEF Others
<1>3a. O \subseteq Calls BY DEF Others
<1>4. p \in PeerIDs BY DEF Carries, Between
<1> HIDE DEF O, p
<1>5. call'[k].pc = c.pc /\ call'[k].id = p /\ call'[k].peer = c.peer BY <1>1 DEF SameCall, p
<1>6. \A d \in Calls : d # k => /\ call'[d].pc = call[d].pc /\ call'[d].id = call[d].id /\ call'[d].op = call[d].op
                                /\ call'[d].peer = call[d].peer
  BY <1>1 DEF SameCall
<1>7. FederationTypes' BY <1>1 DEF FedTables, FederationTypes
<1>8. CallsOK'
  <2> SUFFICES ASSUME NEW d \in Calls PROVE Carries(call'[d]) BY DEF CallsOK
  <2>1. PICK r : Carries(r) /\ SameCall(call'[d], r) BY <1>0, <1>1 DEF CallsOK
  <2> QED BY <2>1 DEF Carries, SameCall
<1>9. AloneOK'
  <2> SUFFICES ASSUME NEW d \in Calls, call'[d].pc \in Between
               PROVE  /\ call'[d].alone => \A e \in Calls : e # d /\ call'[e].pc \in Between => call'[e].id # call'[d].id
                      /\ ~call'[d].alone => call'[d].id \in unlike'
    BY DEF AloneOK
  <2>1. CASE d = k
    <3>1. ASSUME call'[d].alone, NEW e \in Calls, e # d, call'[e].pc \in Between PROVE call'[e].id # call'[d].id
      BY <1>1, <1>3, <1>5, <1>6, <2>1, <3>1
    <3>2. ~call'[d].alone => call'[d].id \in unlike' BY <1>1, <1>2, <1>5, <2>1
    <3> QED BY <3>1, <3>2
  <2>2. CASE d # k
    <3>1. ASSUME call'[d].alone, NEW e \in Calls, e # d, call'[e].pc \in Between PROVE call'[e].id # call'[d].id
      <4>1. call[d].alone /\ d \notin O /\ call[d].pc \in Between BY <1>1, <1>6, <2>2, <3>1
      <4>2. CASE e = k BY <1>3, <1>5, <1>6, <2>2, <4>1, <4>2
      <4>3. CASE e # k BY <1>0, <1>6, <2>2, <3>1, <4>1, <4>3 DEF AloneOK
      <4> QED BY <4>2, <4>3
    <3>2. ASSUME ~call'[d].alone PROVE call'[d].id \in unlike'
      <4>1. CASE d \in O BY <1>2, <1>3, <1>6, <2>2, <4>1
      <4>2. CASE d \notin O
        <5>1. ~call[d].alone BY <1>1, <2>2, <3>2, <4>2
        <5>2. call[d].id \in unlike BY <1>0, <1>6, <2>2, <5>1 DEF AloneOK
        <5> QED BY <1>2, <1>6, <2>2, <5>2
      <4> QED BY <4>1, <4>2
    <3> QED BY <3>1, <3>2
  <2> QED BY <2>1, <2>2
<1>10. HalfWritten'
  <2> SUFFICES ASSUME NEW d \in Calls, call'[d].alone
               PROVE  /\ call'[d].pc = "remember" => table'[call'[d].id] = call'[d].peer
                      /\ call'[d].pc = "forget" => table'[call'[d].id] = Unknown
                      /\ call'[d].pc = "update" /\ call'[d].id \notin unlike' =>
                           peers'[call'[d].id] = IF table'[call'[d].id] = Unknown THEN Unknown
                                                 ELSE [table'[call'[d].id] EXCEPT !.status = call'[d].peer.status]
    BY DEF HalfWritten
  <2>1. CASE d = k
    <3>1. O = {} /\ unlike' = unlike BY <1>1, <1>2, <2>1
    <3>2. ASSUME c.pc = "update", p \notin unlike PROVE peers[p] = table[p]
      <4>1. \A e \in Calls : ~(call[e].id = p /\ call[e].pc \in Between) BY <1>3, <3>1
      <4> QED BY <1>0, <1>4, <3>2, <4>1 DEF Alike
    <3>3. call'[d].pc = "update" /\ call'[d].id \notin unlike' =>
                           peers'[call'[d].id] = IF table'[call'[d].id] = Unknown THEN Unknown
                                                 ELSE [table'[call'[d].id] EXCEPT !.status = call'[d].peer.status]
      BY <1>5, <2>1, <3>1, <3>2 DEF p
    <3> QED BY <1>5, <2>1, <3>3 DEF p
  <2>2. CASE d # k /\ call[d].pc \in Between
    <3>1. call[d].alone /\ call[d].id # p /\ call[d].id \in PeerIDs
      BY <1>0, <1>1, <1>3, <2>2 DEF CallsOK, Carries, Between
    <3>2. table'[call[d].id] = table[call[d].id] /\ peers'[call[d].id] = peers[call[d].id] BY <3>1 DEF p
    <3>3. call[d].id \notin unlike' => call[d].id \notin unlike BY <1>2
    <3> QED BY <1>0, <1>6, <2>2, <3>1, <3>2, <3>3 DEF HalfWritten
  <2>3. CASE d # k /\ call[d].pc \notin Between BY <1>6, <2>3 DEF Between
  <2> QED BY <2>1, <2>2, <2>3
<1>11. Alike'
  <2> SUFFICES ASSUME NEW q \in PeerIDs, q \notin unlike',
                      \A d \in Calls : ~(call'[d].id = q /\ call'[d].pc \in Between)
               PROVE  peers'[q] = table'[q]
    BY DEF Alike
  <2>1. q # p BY <1>5
  <2>2. \A d \in Calls : ~(call[d].id = q /\ call[d].pc \in Between) BY <1>6
  <2>3. q \notin unlike BY <1>2
  <2>4. peers[q] = table[q] BY <1>0, <2>2, <2>3 DEF Alike
  <2> QED BY <2>1, <2>4 DEF p
<1> QED BY <1>7, <1>8, <1>9, <1>10, <1>11 DEF FederationIInv

(* A call goes on or returns, and is not between its writes any more.  If it *)
(* was, then this was its second write, or that write failed.                *)
LEMMA CallStep ==
  ASSUME FederationIInv, NEW k \in Calls, NEW c \in CallRec, Carries(c), c.pc \notin Between,
         call' = [call EXCEPT ![k] = c], FedTables',
         call[k].pc \notin Between => UNCHANGED <<table, peers, unlike>>,
         call[k].pc \in Between =>
           /\ \A q \in PeerIDs : q # call[k].id => table'[q] = table[q] /\ peers'[q] = peers[q]
           /\ \A q : q # call[k].id => (q \in unlike' <=> q \in unlike)
           /\ call[k].id \in unlike /\ call[k].id \notin unlike' => call[k].alone
           /\ call[k].id \notin unlike' => peers'[call[k].id] = table'[call[k].id]
  PROVE  FederationIInv'
<1>0. FederationTypes /\ CallsOK /\ AloneOK /\ HalfWritten /\ Alike BY DEF FederationIInv
<1>1. call \in [Calls -> CallRec] BY <1>0 DEF FederationTypes
<1>2. call' \in [Calls -> CallRec] /\ call'[k] = c /\ \A d \in Calls : d # k => call'[d] = call[d] BY <1>1
<1> DEFINE p == call[k].id
           W == call[k].pc \in Between
<1>3. /\ ~W => UNCHANGED <<table, peers, unlike>>
      /\ W => /\ \A q \in PeerIDs : q # p => table'[q] = table[q] /\ peers'[q] = peers[q]
              /\ \A q : q # p => (q \in unlike' <=> q \in unlike)
              /\ p \in unlike /\ p \notin unlike' => call[k].alone
              /\ p \notin unlike' => peers'[p] = table'[p]
  OBVIOUS
<1>4. W <=> call[k].pc \in Between OBVIOUS
<1>5. p = call[k].id OBVIOUS
<1> HIDE DEF p, W
<1>7. FederationTypes' BY <1>2 DEF FedTables, FederationTypes
<1>8. CallsOK' BY <1>0, <1>2 DEF CallsOK
<1>9. AloneOK'
  <2> SUFFICES ASSUME NEW d \in Calls, call'[d].pc \in Between
               PROVE  /\ call'[d].alone => \A e \in Calls : e # d /\ call'[e].pc \in Between => call'[e].id # call'[d].id
                      /\ ~call'[d].alone => call'[d].id \in unlike'
    BY DEF AloneOK
  <2>1. d # k /\ call'[d] = call[d] /\ call[d].pc \in Between BY <1>2
  <2>2. ASSUME call[d].alone, NEW e \in Calls, e # d, call'[e].pc \in Between PROVE call'[e].id # call[d].id
    <3>1. e # k /\ call'[e] = call[e] BY <1>2, <2>2
    <3> QED BY <1>0, <2>1, <2>2, <3>1 DEF AloneOK
  <2>3. ASSUME ~call[d].alone PROVE call[d].id \in unlike'
    <3>1. call[d].id \in unlike BY <1>0, <2>1, <2>3 DEF AloneOK
    <3>2. CASE ~W BY <1>3, <3>1, <3>2
    <3>3. CASE W /\ call[d].id # p BY <1>3, <3>1, <3>3
    <3>4. CASE W /\ call[d].id = p
      <4>1. ~call[k].alone BY <1>0, <1>4, <1>5, <2>1, <3>4 DEF AloneOK
      <4> QED BY <1>3, <3>1, <3>4, <4>1
    <3> QED BY <3>2, <3>3, <3>4
  <2> QED BY <2>1, <2>2, <2>3
<1>10. HalfWritten'
  <2> SUFFICES ASSUME NEW d \in Calls, call'[d].alone, call'[d].pc \in Between
               PROVE  /\ call'[d].pc = "remember" => table'[call'[d].id] = call'[d].peer
                      /\ call'[d].pc = "forget" => table'[call'[d].id] = Unknown
                      /\ call'[d].pc = "update" /\ call'[d].id \notin unlike' =>
                           peers'[call'[d].id] = IF table'[call'[d].id] = Unknown THEN Unknown
                                                 ELSE [table'[call'[d].id] EXCEPT !.status = call'[d].peer.status]
    BY DEF HalfWritten, Between
  <2>1. d # k /\ call'[d] = call[d] /\ call[d].pc \in Between /\ call[d].alone BY <1>2
  <2>2. call[d].id \in PeerIDs BY <1>0, <2>1 DEF CallsOK, Carries, Between
  <2>3. /\ table'[call[d].id] = table[call[d].id] /\ peers'[call[d].id] = peers[call[d].id]
        /\ call[d].id \notin unlike' => call[d].id \notin unlike
    <3>1. CASE ~W BY <1>3, <3>1
    <3>2. CASE W
      <4>1. call[d].id # p BY <1>0, <1>4, <1>5, <2>1, <3>2 DEF AloneOK
      <4> QED BY <1>3, <2>2, <3>2, <4>1
    <3> QED BY <3>1, <3>2
  <2>4. /\ call[d].pc = "remember" => table[call[d].id] = call[d].peer
        /\ call[d].pc = "forget" => table[call[d].id] = Unknown
        /\ call[d].pc = "update" /\ call[d].id \notin unlike =>
             peers[call[d].id] = IF table[call[d].id] = Unknown THEN Unknown
                                 ELSE [table[call[d].id] EXCEPT !.status = call[d].peer.status]
    BY <1>0, <2>1 DEF HalfWritten
  <2> QED BY <2>1, <2>3, <2>4
<1>11. Alike'
  <2> SUFFICES ASSUME NEW q \in PeerIDs, q \notin unlike',
                      \A d \in Calls : ~(call'[d].id = q /\ call'[d].pc \in Between)
               PROVE  peers'[q] = table'[q]
    BY DEF Alike
  <2>1. CASE W /\ q = p BY <1>3, <2>1
  <2>2. CASE ~(W /\ q = p)
    <3>1. q \notin unlike /\ table'[q] = table[q] /\ peers'[q] = peers[q] BY <1>3, <2>2
    <3>2. \A d \in Calls : ~(call[d].id = q /\ call[d].pc \in Between)
      <4> SUFFICES ASSUME NEW d \in Calls PROVE ~(call[d].id = q /\ call[d].pc \in Between) OBVIOUS
      <4>1. CASE d = k BY <1>4, <1>5, <2>2, <4>1
      <4>2. CASE d # k BY <1>2, <4>2
      <4> QED BY <4>1, <4>2
    <3> QED BY <1>0, <3>1, <3>2 DEF Alike
  <2> QED BY <2>1, <2>2
<1> QED BY <1>7, <1>8, <1>9, <1>10, <1>11 DEF FederationIInv

(* The call is not between its writes and returns, with nothing written.     *)
LEMMA EndsStep ==
  ASSUME FederationIInv, NEW k \in Calls, call[k].pc \notin Between, Ends(k),
         UNCHANGED <<table, peers, invites, started>>
  PROVE  FederationIInv'
<1>1. peers' \in [PeerIDs -> Peer \cup {Unknown}] BY DEF FederationIInv, FederationTypes
<1>2. FedTables' BY <1>1, FedTablesKept
<1>3. NoCall \in CallRec /\ NoCall.pc = "idle" /\ Carries(NoCall) BY NoCallFacts
<1>4. NoCall.pc \notin Between BY <1>3 DEF Between
<1> QED BY <1>2, <1>3, <1>4, CallStep DEF Ends

(* AddPeer, by any of its callers.                                           *)
LEMMA AddPeerStep ==
  ASSUME FederationAssumption, FederationIInv, NEW k \in Calls, call[k].pc \notin Between,
         NEW op \in {"add", "discover", "list"}, NEW p \in PeerIDs \cup {Self}, NEW peer \in Peer,
         AddPeer(k, op, p, peer)
  PROVE  FederationIInv'
<1>0. FederationTypes BY DEF FederationIInv
<1>1. CASE ~(p # Self /\ UrlFree(p, peer.at)) BY <1>1, EndsStep DEF AddPeer
<1>2. CASE p # Self /\ UrlFree(p, peer.at)
  <2> DEFINE c == [NoCall EXCEPT !.pc = "remember", !.op = op, !.id = p, !.peer = peer]
  <2>1. /\ table' = [table EXCEPT ![p] = peer] /\ FirstWrite(k, c)
        /\ UNCHANGED <<peers, invites, started>>
    BY <1>2 DEF AddPeer, AddFederationPeer
  <2>2. peer \in PeerStatus BY DEF Peer, PeerStatus
  <2>3. c.pc = "remember" /\ c.op = op /\ c.id = p /\ c.peer = peer BY DEF NoCall
  <2>4. c \in CallRec BY <2>2 DEF NoCall, CallRec
  <2> HIDE DEF c
  <2>5. p \in PeerIDs BY <1>2
  <2>6. Carries(c) /\ c.pc \in Between BY <2>3, <2>5 DEF Carries, Between
  <2>7. /\ table' \in [PeerIDs -> Peer \cup {Unknown}] /\ table'[p] = peer
        /\ \A q \in PeerIDs : q # p => table'[q] = table[q]
    BY <1>0, <2>1, <2>5 DEF FederationTypes
  <2>9. FedTables' BY <1>0, <2>1, <2>7 DEF FederationTypes, FedTables
  <2> QED BY <2>1, <2>3, <2>4, <2>6, <2>7, <2>9, FirstWriteStep
<1> QED BY <1>1, <1>2

LEMMA PeerWritten ==
  ASSUME FederationAssumption, FederationIInv, NEW k \in Calls,
         \/ handleAddPeer(k) \/ handleDiscover(k) \/ requestPeerList(k)
  PROVE  FederationIInv'
<1>0. CallsOK BY DEF FederationIInv
<1>1. \A s \in Servers : [at |-> s, status |-> "active"] \in Peer BY DEF Peer
<1>2. CASE handleAddPeer(k) \/ handleDiscover(k)
  <2>1. call[k].pc \notin Between BY <1>2 DEF handleAddPeer, handleDiscover, Between
  <2>2. PICK p \in PeerIDs \cup {Self}, s \in Servers, op \in {"add", "discover"} :
          AddPeer(k, op, p, [at |-> s, status |-> "active"])
    BY <1>2 DEF handleAddPeer, handleDiscover
  <2> QED BY <1>1, <2>1, <2>2, AddPeerStep
<1>4. CASE requestPeerList(k)
  <2>1. call[k].pc = "save" /\ AddPeer(k, "list", call[k].id, call[k].peer)
    BY <1>4 DEF requestPeerList
  <2>2. call[k].peer \in Peer /\ call[k].id \in PeerIDs BY <1>0, <2>1 DEF CallsOK, Carries
  <2>3. call[k].pc \notin Between BY <2>1 DEF Between
  <2> QED BY <2>1, <2>2, <2>3, AddPeerStep
<1> QED BY <1>2, <1>4

LEMMA PeerRemoved ==
  ASSUME FederationIInv, NEW k \in Calls, handleRemovePeer(k)
  PROVE  FederationIInv'
<1>0. FederationTypes BY DEF FederationIInv
<1>1. PICK p \in PeerIDs :
        /\ RemoveFederationPeer(p)
        /\ FirstWrite(k, [NoCall EXCEPT !.pc = "forget", !.op = "remove", !.id = p])
  BY DEF handleRemovePeer
<1> DEFINE c == [NoCall EXCEPT !.pc = "forget", !.op = "remove", !.id = p]
<1>2. FirstWrite(k, c) BY <1>1
<1>3. c.pc = "forget" /\ c.op = "remove" /\ c.id = p BY DEF NoCall
<1>4. c \in CallRec BY DEF NoCall, CallRec
<1> HIDE DEF c
<1>5. Carries(c) /\ c.pc \in Between BY <1>3 DEF Carries, Between
<1>6. /\ table' \in [PeerIDs -> Peer \cup {Unknown}] /\ table'[p] = Unknown
      /\ \A q \in PeerIDs : q # p => table'[q] = table[q]
  BY <1>0, <1>1 DEF FederationTypes, RemoveFederationPeer
<1>7. UNCHANGED <<peers, invites, started>> /\ call[k].pc \notin Between BY DEF handleRemovePeer, Between
<1>9. FedTables' BY <1>0, <1>6, <1>7 DEF FederationTypes, FedTables
<1> QED BY <1>2, <1>3, <1>4, <1>5, <1>6, <1>7, <1>9, FirstWriteStep

LEMMA StatusOfPeer ==
  ASSUME NEW r \in Peer, NEW status \in {"active", "inactive"}
  PROVE  /\ [r EXCEPT !.status = status] \in Peer
         /\ [r EXCEPT !.status = status].at = r.at
BY DEF Peer

LEMMA HealthChecked ==
  ASSUME FederationIInv, NEW k \in Calls, checkPeerHealth(k)
  PROVE  FederationIInv'
<1>0. FederationTypes /\ CallsOK BY DEF FederationIInv
<1>1. PICK status \in {"active", "inactive"} : updatePeerStatus(k, status) BY DEF checkPeerHealth
<1> DEFINE r == call[k]
           new == [at |-> Unknown, status |-> status]
           c == [r EXCEPT !.pc = "update", !.peer = new]
           p == r.id
<1>2. r \in CallRec /\ r.pc = "ping" BY <1>0 DEF checkPeerHealth, FederationTypes
<1>3. p \in PeerIDs /\ r.op = "health" BY <1>0, <1>2 DEF CallsOK, Carries
<1>4. /\ FirstWrite(k, c) /\ UNCHANGED <<table, invites, started>>
      /\ peers' = [peers EXCEPT ![p] = IF @ = Unknown THEN Unknown ELSE [@ EXCEPT !.status = status]]
  BY <1>1 DEF updatePeerStatus
<1>5. new \in PeerStatus BY DEF PeerStatus
<1>6. new.status = status OBVIOUS
<1>x. r.pc \notin Between BY <1>2 DEF Between
<1>y. p = r.id /\ r = call[k] OBVIOUS
<1> HIDE DEF new, p, r
<1>7. c.pc = "update" /\ c.op = "health" /\ c.id = p /\ c.peer = new BY <1>2, <1>3, <1>y DEF CallRec
<1>8. c \in CallRec BY <1>2, <1>5 DEF CallRec
<1> HIDE DEF c
<1>9. Carries(c) /\ c.pc \in Between BY <1>3, <1>6, <1>7 DEF Carries, Between
<1>10. /\ peers' \in [PeerIDs -> Peer \cup {Unknown}]
       /\ \A q \in PeerIDs : q # p => peers'[q] = peers[q]
       /\ peers'[p] = IF peers[p] = Unknown THEN Unknown ELSE [peers[p] EXCEPT !.status = status]
  <2>1. peers \in [PeerIDs -> Peer \cup {Unknown}] BY <1>0 DEF FederationTypes
  <2> DEFINE v == IF peers[p] = Unknown THEN Unknown ELSE [peers[p] EXCEPT !.status = status]
  <2>2. v \in Peer \cup {Unknown} BY <1>3, <2>1, StatusOfPeer
  <2>3. peers' = [peers EXCEPT ![p] = v] BY <1>3, <1>4, <2>1
  <2> QED BY <1>3, <2>1, <2>2, <2>3
<1>11. FedTables' BY <1>4, <1>10, FedTablesKept
<1>12. table'[p] = table[p] BY <1>4
<1> QED BY <1>4, <1>6, <1>7, <1>8, <1>9, <1>10, <1>11, <1>12, <1>x, <1>y, FirstWriteStep

(* The second write of a call that is alone makes map and table alike.       *)
LEMMA SecondWrites ==
  ASSUME FederationIInv, NEW k \in Calls,
         RememberPeer(k) \/ RemovePeer(k) \/ UpdateFederationPeerStatus(k)
  PROVE  FederationIInv'
<1>0. FederationTypes /\ CallsOK /\ AloneOK /\ HalfWritten BY DEF FederationIInv
<1> DEFINE p == call[k].id
<1>1. call[k].pc \in Between BY DEF RememberPeer, RemovePeer, UpdateFederationPeerStatus, Between
<1>2. p \in PeerIDs BY <1>0, <1>1 DEF CallsOK, Carries, Between
<1>3. SecondWrite(k) /\ UNCHANGED <<invites, started>>
  BY DEF RememberPeer, RemovePeer, UpdateFederationPeerStatus
<1>4. call' = [call EXCEPT ![k] = NoCall] BY <1>3 DEF SecondWrite
<1>5. /\ \A q : q # p => (q \in unlike' <=> q \in unlike)
      /\ p \in unlike /\ p \notin unlike' => call[k].alone
  BY <1>3 DEF SecondWrite
<1>6. ~call[k].alone => p \in unlike' BY <1>0, <1>1, <1>3 DEF AloneOK, SecondWrite
<1>7. table \in [PeerIDs -> Peer \cup {Unknown}] /\ peers \in [PeerIDs -> Peer \cup {Unknown}]
  BY <1>0 DEF FederationTypes
<1>8. NoCall \in CallRec /\ Carries(NoCall) /\ NoCall.pc = "idle" BY NoCallFacts
<1>9. SUFFICES /\ FedTables'
               /\ \A q \in PeerIDs : q # p => table'[q] = table[q] /\ peers'[q] = peers[q]
               /\ call[k].alone /\ p \notin unlike' => peers'[p] = table'[p]
  <2>1. NoCall.pc \notin Between BY <1>8 DEF Between
  <2> QED BY <1>1, <1>3, <1>4, <1>5, <1>6, <1>8, <1>9, <2>1, CallStep
<1>10. CASE RememberPeer(k)
  <2>1. call[k].pc = "remember" /\ peers' = [peers EXCEPT ![p] = call[k].peer] /\ table' = table
    BY <1>10 DEF RememberPeer
  <2>2. call[k].peer \in Peer BY <1>0, <2>1 DEF CallsOK, Carries
  <2>3. peers' \in [PeerIDs -> Peer \cup {Unknown}] /\ peers'[p] = call[k].peer
        /\ \A q \in PeerIDs : q # p => peers'[q] = peers[q]
    BY <1>2, <1>7, <2>1, <2>2
  <2>4. FedTables' BY <1>3, <2>1, <2>3, FedTablesKept
  <2>5. call[k].alone => table[p] = call[k].peer BY <1>0, <2>1 DEF HalfWritten
  <2> QED BY <2>1, <2>3, <2>4, <2>5
<1>11. CASE RemovePeer(k)
  <2>1. call[k].pc = "forget" /\ peers' = [peers EXCEPT ![p] = Unknown] /\ table' = table
    BY <1>11 DEF RemovePeer
  <2>3. peers' \in [PeerIDs -> Peer \cup {Unknown}] /\ peers'[p] = Unknown
        /\ \A q \in PeerIDs : q # p => peers'[q] = peers[q]
    BY <1>2, <1>7, <2>1
  <2>4. FedTables' BY <1>3, <2>1, <2>3, FedTablesKept
  <2>5. call[k].alone => table[p] = Unknown BY <1>0, <2>1 DEF HalfWritten
  <2> QED BY <2>1, <2>3, <2>4, <2>5
<1>12. CASE UpdateFederationPeerStatus(k)
  <2> DEFINE status == call[k].peer.status
             v == IF table[p] = Unknown THEN Unknown ELSE [table[p] EXCEPT !.status = status]
  <2>1. call[k].pc = "update" /\ peers' = peers /\ table' = [table EXCEPT ![p] = v]
    BY <1>12 DEF UpdateFederationPeerStatus
  <2>2. status \in {"active", "inactive"} /\ call[k].op = "health" BY <1>0, <2>1 DEF CallsOK, Carries
  <2>a. v = Unknown \/ (table[p] # Unknown /\ v \in Peer /\ v.at = table[p].at) BY <1>2, <1>7, <2>2, StatusOfPeer
  <2>b. call[k].alone /\ p \notin unlike => peers[p] = v BY <1>0, <2>1 DEF HalfWritten
  <2> HIDE DEF v, status
  <2>3. table' \in [PeerIDs -> Peer \cup {Unknown}] /\ table'[p] = v
        /\ \A q \in PeerIDs : q # p => table'[q] = table[q]
    BY <1>2, <1>7, <2>1, <2>a
  <2>6. FedTables' BY <1>0, <1>3, <2>1, <2>3 DEF FederationTypes, FedTables
  <2>7. unlike' = unlike BY <1>3, <2>2 DEF SecondWrite
  <2> QED BY <2>1, <2>3, <2>6, <2>7, <2>b
<1> QED BY <1>10, <1>11, <1>12

LEMMA CallBegins ==
  ASSUME FederationIInv, NEW k \in Calls, healthCheckLoop(k) \/ autoDiscoveryLoop(k)
  PROVE  FederationIInv'
<1>0. /\ call[k].pc \notin Between /\ UNCHANGED <<table, peers, invites, started, unlike>>
  BY DEF healthCheckLoop, checkPeersHealth, autoDiscoveryLoop, discoverViaPeers, Between
<1>1. peers' \in [PeerIDs -> Peer \cup {Unknown}] BY <1>0 DEF FederationIInv, FederationTypes
<1>2. FedTables' BY <1>0, <1>1, FedTablesKept
<1>3. SUFFICES \E c \in CallRec : /\ Carries(c) /\ c.pc \notin Between
                                  /\ call' = [call EXCEPT ![k] = c]
  BY <1>0, <1>2, CallStep
<1>5. CASE healthCheckLoop(k)
  <2>1. PICK p \in PeerIDs : call' = [call EXCEPT ![k] = [NoCall EXCEPT !.pc = "ping", !.op = "health", !.id = p]]
    BY <1>5 DEF healthCheckLoop, checkPeersHealth
  <2> DEFINE c == [NoCall EXCEPT !.pc = "ping", !.op = "health", !.id = p]
  <2>a. call' = [call EXCEPT ![k] = c] BY <2>1
  <2>3. c.pc = "ping" /\ c.op = "health" /\ c.id = p BY DEF NoCall
  <2>4. c \in CallRec BY DEF NoCall, CallRec
  <2> HIDE DEF c
  <2>5. Carries(c) /\ c.pc \notin Between BY <2>3 DEF Carries, Between
  <2> QED BY <2>a, <2>3, <2>4, <2>5
<1>6. CASE autoDiscoveryLoop(k)
  <2>1. PICK p \in PeerIDs, s \in Servers :
          call' = [call EXCEPT ![k] = [NoCall EXCEPT !.pc = "save", !.op = "list", !.id = p,
                                                     !.peer = [at |-> s, status |-> "pending"]]]
    BY <1>6 DEF autoDiscoveryLoop, discoverViaPeers
  <2> DEFINE peer == [at |-> s, status |-> "pending"]
             c == [NoCall EXCEPT !.pc = "save", !.op = "list", !.id = p, !.peer = peer]
  <2>2. peer \in Peer /\ peer \in PeerStatus BY DEF Peer, PeerStatus
  <2>a. call' = [call EXCEPT ![k] = c] BY <2>1
  <2> HIDE DEF peer
  <2>3. c.pc = "save" /\ c.op = "list" /\ c.id = p /\ c.peer = peer BY DEF NoCall
  <2>4. c \in CallRec BY <2>2 DEF NoCall, CallRec
  <2> HIDE DEF c
  <2>5. Carries(c) /\ c.pc \notin Between BY <2>2, <2>3 DEF Carries, Between
  <2> QED BY <2>a, <2>3, <2>4, <2>5
<1> QED BY <1>5, <1>6

LEMMA CallFails ==
  ASSUME FederationIInv, NEW k \in Calls, StatementFails(k)
  PROVE  FederationIInv'
<1>0. call' = [call EXCEPT ![k] = NoCall] /\ UNCHANGED <<table, peers, invites, started>>
  BY DEF StatementFails
<1>1. CASE call[k].pc # "update"
  <2>1. call[k].pc \notin Between /\ Ends(k) BY <1>1 DEF StatementFails, Between, Ends
  <2> QED BY <1>0, <2>1, EndsStep
<1>2. CASE call[k].pc = "update"
  <2>1. unlike' = unlike \cup {call[k].id} /\ call[k].pc \in Between BY <1>2 DEF StatementFails, Between
  <2>2. peers' \in [PeerIDs -> Peer \cup {Unknown}] BY <1>0 DEF FederationIInv, FederationTypes
  <2>3. FedTables' BY <1>0, <2>2, FedTablesKept
  <2>4. NoCall \in CallRec /\ NoCall.pc = "idle" /\ Carries(NoCall) BY NoCallFacts
  <2>5. NoCall.pc \notin Between BY <2>4 DEF Between
  <2> QED BY <1>0, <2>1, <2>3, <2>4, <2>5, CallStep
<1> QED BY <1>1, <1>2

(* A step that no call takes: the calls stay as they are.                    *)
LEMMA InviteSteps ==
  ASSUME FederationIInv, NEW i \in Invites, handleCreateInvite(i)
  PROVE  FederationIInv'
<1>0. FederationTypes /\ CallsOK /\ AloneOK /\ HalfWritten /\ Alike BY DEF FederationIInv
<1>1. UNCHANGED <<table, peers, started, call, unlike>> BY DEF handleCreateInvite
<1>2. invites' \subseteq Invites BY <1>0 DEF FederationTypes, handleCreateInvite, CreateFederationInvite
<1>3. FederationTypes' BY <1>0, <1>1, <1>2 DEF FederationTypes
<1>4. CallsOK' BY <1>0, <1>1 DEF CallsOK
<1>5. AloneOK' BY <1>0, <1>1 DEF AloneOK
<1>6. HalfWritten' BY <1>0, <1>1 DEF HalfWritten
<1>7. Alike' BY <1>0, <1>1 DEF Alike
<1> QED BY <1>3, <1>4, <1>5, <1>6, <1>7 DEF FederationIInv

(* With no call in progress, only the peers' rows and the map matter.        *)
Quiescent == call = [k \in Calls |-> NoCall] /\ \A p \in PeerIDs \ unlike : peers[p] = table[p]

LEMMA NoCalls == FedTables /\ Quiescent => FederationIInv
<1> SUFFICES ASSUME FedTables, Quiescent PROVE FederationIInv OBVIOUS
<1>1. NoCall \in CallRec /\ NoCall.pc = "idle" /\ NoCall.alone = FALSE /\ Carries(NoCall) BY NoCallFacts
<1>2. call \in [Calls -> CallRec] /\ \A k \in Calls : call[k] = NoCall BY <1>1 DEF Quiescent
<1>3. FederationTypes BY <1>2 DEF FederationTypes, FedTables
<1>4. CallsOK BY <1>1, <1>2 DEF CallsOK
<1>5. AloneOK BY <1>1, <1>2 DEF AloneOK, Between
<1>6. HalfWritten BY <1>1, <1>2 DEF HalfWritten
<1>7. Alike BY DEF Alike, Quiescent
<1> QED BY <1>3, <1>4, <1>5, <1>6, <1>7 DEF FederationIInv

LEMMA RestartStep ==
  ASSUME FederationIInv, Restart
  PROVE  FederationIInv'
<1>1. FederationTypes BY DEF FederationIInv
<1>2. peers' = [p \in PeerIDs |-> Unknown] /\ unlike' = {p \in PeerIDs : table[p] # Unknown}
  BY DEF Restart, loadPeers, GetFederationPeers
<1>3. call' = [k \in Calls |-> NoCall] /\ started' \in BOOLEAN /\ UNCHANGED <<table, invites>> BY DEF Restart
<1>5. FedTables' BY <1>1, <1>2, <1>3 DEF FederationTypes, FedTables
<1>6. \A p \in PeerIDs \ unlike' : peers'[p] = table'[p] BY <1>2, <1>3
<1>7. Quiescent' BY <1>3, <1>6 DEF Quiescent, NoCall
<1> QED BY <1>5, <1>7, NoCalls, PTL

LEMMA FederationStart == FederationInit => FederationIInv
<1> SUFFICES ASSUME FederationInit PROVE FederationIInv OBVIOUS
<1>1. FedTables BY DEF FederationInit, FedTables
<1>2. Quiescent BY DEF FederationInit, Quiescent
<1> QED BY <1>1, <1>2, NoCalls

LEMMA FederationKept == FederationIInv /\ UNCHANGED federation => FederationIInv'
<1> SUFFICES ASSUME FederationIInv, UNCHANGED federation PROVE FederationIInv' OBVIOUS
<1>1. UNCHANGED <<table, peers, invites, started, call, unlike>> BY DEF federation
<1>2. FederationTypes' /\ CallsOK' /\ AloneOK'
  BY <1>1 DEF FederationIInv, FederationTypes, CallsOK, AloneOK
<1>3. HalfWritten' /\ Alike' BY <1>1 DEF FederationIInv, HalfWritten, Alike
<1> QED BY <1>2, <1>3 DEF FederationIInv

LEMMA FederationSteps ==
  ASSUME FederationAssumption, FederationIInv, FederationNext
  PROVE  FederationIInv'
<1>1. ASSUME NEW k \in Calls,
             \/ handleAddPeer(k) \/ RememberPeer(k) \/ handleDiscover(k) \/ handleRemovePeer(k) \/ RemovePeer(k)
             \/ healthCheckLoop(k) \/ checkPeerHealth(k) \/ UpdateFederationPeerStatus(k)
             \/ autoDiscoveryLoop(k) \/ requestPeerList(k) \/ StatementFails(k)
      PROVE  FederationIInv'
  BY <1>1, PeerWritten, PeerRemoved, SecondWrites, CallBegins, HealthChecked, CallFails
<1>2. handleJoin => UNCHANGED federation BY DEF handleJoin
<1> QED BY <1>1, <1>2, InviteSteps, FederationKept, RestartStep DEF FederationNext

LEMMA FederationImplies ==
  ASSUME FederationAssumption, FederationIInv
  PROVE  FederationInv
<1>0. FederationTypes /\ Alike BY DEF FederationIInv
<1>1. FederationTypeOK
  <2>1. \A k \in Calls : call[k].pc \in {"idle", "save", "remember", "forget", "ping", "update"}
    BY <1>0, CallFields DEF FederationTypes
  <2> QED BY <1>0, <2>1 DEF FederationTypes, FederationTypeOK
<1>2. PeersMirrored
  <2> SUFFICES ASSUME NEW p \in PeerIDs \ unlike, \A k \in Calls : ~(call[k].id = p /\ call[k].pc \in Between),
                      NEW s \in Servers
               PROVE  /\ peers[p] = table[p]
                      /\ VerifyIncomingMessage(p, s) <=> table[p] = [at |-> s, status |-> "active"]
    BY <1>0 DEF PeersMirrored, Alike
  <2>1. peers[p] = table[p] BY <1>0 DEF Alike
  <2>2. table[p] \in Peer \cup {Unknown} BY <1>0 DEF FederationTypes
  <2>3. Unknown \notin Peer BY DEF FederationAssumption
  <2>4. \A r \in Peer : r.status = "active" /\ r.at = s <=> r = [at |-> s, status |-> "active"] BY DEF Peer
  <2>5. [at |-> s, status |-> "active"] \in Peer BY DEF Peer
  <2> QED BY <2>1, <2>2, <2>3, <2>4, <2>5 DEF VerifyIncomingMessage, GetPeer
<1> QED BY <1>1, <1>2 DEF FederationInv

-----------------------------------------------------------------------------
(* The four parts together.                                                 *)

LEMMA AccessStart == Init => AccessIInv
<1>1. Init => TokenOK BY DEF Init, TokenOK
<1> QED BY <1>1, AuthStart, RBACStart, FederationStart, AuthAssumption DEF Init, AccessIInv

LEMMA AuthKept == AuthIInv /\ UNCHANGED authVars => AuthIInv'
<1> SUFFICES ASSUME AuthIInv, UNCHANGED authVars PROVE AuthIInv' OBVIOUS
<1>1. UNCHANGED <<row, attempts, totp, tokens, sessions, request, undelayed>> BY DEF authVars
<1> QED BY <1>1 DEF AuthIInv, AuthTypes, NamesUnique, GetUserByID, RequestsOK, SessionsOK, GuessesCounted

LEMMA RBACKept == RBACIInv /\ UNCHANGED rbacVars => RBACIInv'
<1> SUFFICES ASSUME RBACIInv, UNCHANGED rbacVars PROVE RBACIInv' OBVIOUS
<1>1. UNCHANGED <<roleOf, revision, perms, check, had>> BY DEF rbacVars
<1>2. RBACTypes' BY <1>1 DEF RBACIInv, RBACTypes
<1>3. CurrentHad' BY <1>1 DEF RBACIInv, CurrentHad, Granted
<1>4. ChecksOK' BY <1>1 DEF RBACIInv, ChecksOK, Held
<1>5. RoleCached' BY <1>1 DEF RBACIInv, RoleCached
<1> QED BY <1>2, <1>3, <1>4, <1>5 DEF RBACIInv

LEMMA AccessSteps == AccessIInv /\ [Next]_access => AccessIInv'
<1> SUFFICES ASSUME AccessIInv, [Next]_access PROVE AccessIInv' OBVIOUS
<1>0. AuthIInv /\ RBACIInv /\ FederationIInv /\ TokenOK BY DEF AccessIInv
<1>1. UNCHANGED validPerms => TokenOK' BY <1>0 DEF TokenOK
<1>2. CASE AuthNext /\ UNCHANGED <<part, validPerms, rbacVars, federation>>
  BY <1>0, <1>1, <1>2, AuthSteps, AuthAssumption, RBACKept, FederationKept DEF AccessIInv
<1>3. CASE RBACNext /\ UNCHANGED <<part, validPerms, authVars, federation>>
  BY <1>0, <1>1, <1>3, RBACSteps, AuthKept, FederationKept DEF AccessIInv
<1>4. CASE GenerateToken /\ UNCHANGED <<part, authVars, rbacVars, federation>>
  BY <1>0, <1>4, TokenStep, AuthKept, RBACKept, FederationKept DEF AccessIInv
<1>5. CASE FederationNext /\ UNCHANGED <<part, validPerms, authVars, rbacVars>>
  BY <1>0, <1>1, <1>5, FederationSteps, FederationAssumption, AuthKept, RBACKept DEF AccessIInv
<1>6. CASE UNCHANGED access
  BY <1>0, <1>1, <1>6, AuthKept, RBACKept, FederationKept DEF AccessIInv, access
<1> QED BY <1>2, <1>3, <1>4, <1>5, <1>6 DEF Next

LEMMA AccessIInvHolds == Spec => []AccessIInv
<1>1. AccessIInv /\ [Next]_access => AccessIInv' BY AccessSteps
<1> QED BY <1>1, AccessStart, PTL DEF Spec

(* For any users, names and requests: a session exists only for a user who,  *)
(* at some moment of the login, was neither disabled nor locked and had the  *)
(* password given, and who has shown his second factor if he has one (Login, *)
(* LoginWithTOTP); and the permission cache of rbac.go holds nothing that    *)
(* its user's role never granted, but a later revision of a role he had.     *)
THEOREM AccessCorrect == Spec => []AccessInv
<1>1. AccessIInv => AccessInv
  BY AuthImplies, AuthAssumption, RBACImplies DEF AccessIInv, AccessInv
<1> QED BY <1>1, AccessIInvHolds, PTL

(* However logins interleave between the check of a name (login) and the     *)
(* count of a failure (recordFailedAttempt): between two successes no more   *)
(* guesses of the name go without a delay than there are requests at a time, *)
(* until the shift that computes the delay overflows.                        *)
THEOREM GuessingDelayed == Spec => []GuessesDelayed
<1>1. AccessIInv => GuessesDelayed BY AuthImplies, AuthAssumption DEF AccessIInv
<1> QED BY <1>1, AccessIInvHolds, PTL

(* An API token never has a permission that Authorize would not find in the  *)
(* role of the user it was made for (GenerateToken, filterValidPermissions). *)
THEOREM TokensWithinRole == Spec => []TokenWithinRole
<1>1. AccessIInv => TokenWithinRole BY TokenImplies DEF AccessIInv
<1> QED BY <1>1, AccessIInvHolds, PTL

(* For any number of peers and of calls at a time: the manager's map accepts *)
(* messages exactly as federation_peers says (AddPeer, RemovePeer,           *)
(* updatePeerStatus), unless two calls on the peer overlapped, a status      *)
(* could not be written, or the row is from before a restart, which loads no *)
(* peers (GetFederationPeers), and has not been written since.               *)
THEOREM PeersCorrect == Spec => []FederationInv
<1>1. AccessIInv => FederationInv BY FederationImplies, FederationAssumption DEF AccessIInv
<1> QED BY <1>1, AccessIInvHolds, PTL
=============================================================================
