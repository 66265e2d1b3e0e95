----------------------------- MODULE AuthService ------------------------------
(***************************************************************************)
(* Logins (auth/auth.go) against the users and sessions tables, with the   *)
(* handlers that change them (handlers_auth.go, handlers_user.go,          *)
(* handlers_admin.go).  A request is a sequence of statements and critical *)
(* sections; requests interleave.  Time is what becomes old.               *)
(***************************************************************************)
EXTENDS Naturals, FiniteSets

CONSTANTS
  Users,        \* ids of users
  Names,        \* user names
  NameOf,       \* an id is created with one name
  Totp,         \* users with a second factor (nothing in the server sets it)
  Passwords,
  Statuses,     \* what an admin may store as a status: any string
  Slots,        \* requests at a time
  Challenges,   \* ids of TOTP sessions
  Sessions,     \* ids of sessions
  None, Deleted,
  Cascade,      \* does the connection delete a user's sessions with him?
  MaxAttempts,  \* failures that lock a name (5)
  ShiftLimit,   \* failures at which 1 << count seconds overflow (34)
  MaxCount      \* bound: failures counted

ASSUME AuthAssumption ==
  /\ NameOf \in [Users -> Names] /\ Totp \subseteq Users /\ Cascade \in BOOLEAN
  /\ "active" \in Statuses
  /\ MaxAttempts \in Nat \ {0} /\ ShiftLimit \in Nat \ {0} /\ MaxCount \in Nat
  /\ IsFiniteSet(Slots) /\ None \notin Names /\ None \notin [count : Nat, locked : BOOLEAN]

VARIABLES
  row,        \* users: id -> [status, pwd, change]; None: not yet, Deleted: no more
  attempts,   \* failedAttempts: name -> [count, locked], or None
  totp,       \* totpSessions of the last 5 minutes: id -> [user, ok], or None
  sessions,   \* sessions: id -> [user, refresh, ok, code], or None
  tokens,     \* sessions whose access token has not expired
  request,    \* the request of each slot
  undelayed   \* history: failed logins that were not delayed, per name

authVars == <<row, attempts, totp, sessions, tokens, request, undelayed>>

Free == [pc |-> "idle", name |-> None, pwd |-> None, user |-> None, seen |-> FALSE,
         delayed |-> TRUE, ok |-> FALSE, code |-> FALSE, id |-> None]

AuthInit ==
  /\ row \in [Users -> [status : {"active"}, pwd : Passwords, change : BOOLEAN] \cup {None}]
  /\ \A u, v \in Users : row[u] # None /\ row[v] # None /\ NameOf[u] = NameOf[v] => u = v
  /\ attempts = [n \in Names |-> None]
  /\ totp = [k \in Challenges |-> None]
  /\ sessions = [k \in Sessions |-> None] /\ tokens = {}
  /\ request = [s \in Slots |-> Free]
  /\ undelayed = [n \in Names |-> 0]

AuthTypeOK ==
  /\ \A u \in Users : row[u] \in {None, Deleted} \/ row[u].pwd \in Passwords
  /\ \A u, v \in Users : {row[u], row[v]} \cap {None, Deleted} = {} /\ NameOf[u] = NameOf[v] => u = v
  /\ \A n \in Names : attempts[n] # None => attempts[n].count \in 1 .. MaxCount
  /\ \A k \in Challenges : totp[k] # None => totp[k].user \in Totp
  /\ \A k \in Sessions : sessions[k] # None => sessions[k].user \in Users
  /\ tokens \subseteq Sessions
  /\ undelayed \in [Names -> Nat]

-----------------------------------------------------------------------------
(* History: a login is justified (ok) if at some moment since it began the   *)
(* user was there, neither disabled nor locked, with this password and not   *)
(* asked to change it.                                                       *)
Justified(n, p, rows) ==
  \E u \in Users : /\ NameOf[u] = n /\ rows[u] \notin {None, Deleted}
                   /\ rows[u].status \notin {"disabled", "locked"}
                   /\ rows[u].pwd = p /\ ~rows[u].change

(* The requests after a step, with their history.                            *)
Requests(next) ==
  request' = [s \in Slots |->
    IF next[s].name = None THEN next[s]
    ELSE [next[s] EXCEPT !.ok = @ \/ Justified(next[s].name, next[s].pwd, row')]]

At(s, pc) == request[s].pc = pc
Goto(s, r) == Requests([request EXCEPT ![s] = r])
Return(s) == Goto(s, Free)

-----------------------------------------------------------------------------
(* Statements on the users and sessions tables.                             *)

GetUserByID(u) == row[u] \notin {None, Deleted}
GetUserByUsername(n) == {u \in Users : GetUserByID(u) /\ NameOf[u] = n}

(* The name is UNIQUE; the id is new.                                        *)
CreateUser(u, p) ==
  /\ row[u] = None /\ GetUserByUsername(NameOf[u]) = {}
  /\ row' = [row EXCEPT ![u] = [status |-> "active", pwd |-> p, change |-> FALSE]]

UpdateUser(u, st) == row' = [row EXCEPT ![u].status = st]
UpdatePassword(u, p) == row' = [row EXCEPT ![u].pwd = p, ![u].change = FALSE]

(* The sessions go with the user where foreign keys are enforced.            *)
DeleteUser(u) ==
  /\ row' = [row EXCEPT ![u] = Deleted]
  /\ sessions' = IF ~Cascade THEN sessions
                 ELSE [k \in Sessions |-> IF sessions[k] # None /\ sessions[k].user = u
                                          THEN None ELSE sessions[k]]

(* The refresh token is a new UUID, the id of no session.                    *)
CreateSession(k, u, ok, code) ==
  /\ sessions[k] = None /\ k \notin tokens
  /\ Cascade => GetUserByID(u)
  /\ sessions' = [sessions EXCEPT ![k] =
       [user |-> u, refresh |-> <<k>>, ok |-> ok, code |-> code]]

DeleteSession(k) == sessions' = [sessions EXCEPT ![k] = None]
GetSessionByRefreshToken(t) == {k \in Sessions : sessions[k] # None /\ sessions[k].refresh = t}

-----------------------------------------------------------------------------
(* Failed attempts.                                                         *)

(* Mutant: the first failure is free.                                        *)
SecondFailure(n) == attempts[n] # None /\ attempts[n].count > 1

(* Is the login delayed?                                                     *)
checkBruteForce(n) == attempts[n] # None

(* The delay of a name that is no longer locked is 1 << count seconds, which *)
(* after ShiftLimit failures has overflowed to anything.                     *)
DelayOverflows(n) ==
  attempts[n] # None /\ ~attempts[n].locked /\ attempts[n].count >= ShiftLimit

recordFailedAttempt(s) ==
  /\ At(s, "fail")
  /\ LET n == request[s].name
         count == 1 + IF attempts[n] = None THEN 0 ELSE attempts[n].count
     IN  /\ count <= MaxCount
         /\ attempts' = [attempts EXCEPT ![n] =
              [count |-> count, locked |-> count >= MaxAttempts]]
         /\ undelayed' = [undelayed EXCEPT ![n] = IF request[s].delayed THEN @ ELSE @ + 1]
  /\ UNCHANGED <<row, totp, sessions, tokens>> /\ Return(s)

Forget(n) ==
  /\ attempts' = [attempts EXCEPT ![n] = None]
  /\ undelayed' = [undelayed EXCEPT ![n] = 0]

(* The hourly cleanup forgets what is older than 24 hours: the lock, if      *)
(* any, ended long ago.                                                      *)
cleanupFailedAttempts(n) ==
  /\ attempts[n] # None /\ ~attempts[n].locked
  /\ Forget(n)
  /\ UNCHANGED <<row, totp, sessions, tokens>> /\ Requests(request)

(* Time: a lock ends after 15 minutes.                                       *)
LockEnds(n) ==
  /\ attempts[n] # None /\ attempts[n].locked
  /\ attempts' = [attempts EXCEPT ![n].locked = FALSE]
  /\ UNCHANGED <<row, totp, sessions, tokens, undelayed>> /\ Requests(request)

-----------------------------------------------------------------------------
(* A login.  A locked name waits, and its guess is then looked at.           *)

login(s) ==
  /\ At(s, "idle")
  /\ \E n \in Names, p \in Passwords, wait \in BOOLEAN :
       /\ (wait = checkBruteForce(n)) \/ DelayOverflows(n)
       /\ UNCHANGED <<row, attempts, totp, sessions, tokens, undelayed>>
       /\ Goto(s, [Free EXCEPT !.pc = "user", !.name = n, !.pwd = p, !.delayed = wait])

(* Mutant: the status is not looked at.                                      *)
AnyStatus(s) ==
  /\ At(s, "user")
  /\ UNCHANGED <<row, attempts, totp, sessions, tokens, undelayed>>
  /\ LET r == request[s]
         Found == GetUserByUsername(r.name)
     IN  IF \A u \in Found : row[u].pwd # r.pwd THEN
           Goto(s, [r EXCEPT !.pc = "fail", !.pwd = None, !.ok = FALSE])
         ELSE \E u \in Found : Goto(s, [r EXCEPT !.pc = "clear", !.user = u, !.seen = row[u].change])

(* The statuses the switch of Login refuses; it lets any other pass.         *)
Barred == {"disabled", "locked"}

(* The row is read: status and password are those of that moment.            *)
Login(s) ==
  /\ At(s, "user")
  /\ UNCHANGED <<row, attempts, totp, sessions, tokens, undelayed>>
  /\ LET r == request[s]
         Found == GetUserByUsername(r.name)
     IN  IF \E u \in Found : row[u].status \in Barred THEN Return(s)
         ELSE IF \A u \in Found : row[u].pwd # r.pwd THEN
           Goto(s, [r EXCEPT !.pc = "fail", !.pwd = None, !.ok = FALSE])
         ELSE \E u \in Found : Goto(s, [r EXCEPT !.pc = "clear", !.user = u, !.seen = row[u].change])

(* A password to be changed ends the login, a second factor suspends it.     *)
clearFailedAttempts(s) ==
  /\ At(s, "clear")
  /\ Forget(request[s].name)
  /\ UNCHANGED <<row, totp, sessions, tokens>>
  /\ LET r == request[s]
     IN  IF r.seen THEN Return(s)
         ELSE Goto(s, [Free EXCEPT !.pc = IF r.user \in Totp THEN "challenge" ELSE "session",
                                   !.user = r.user, !.ok = r.ok])

createTOTPSession(s) ==
  /\ At(s, "challenge")
  /\ \E k \in Challenges :
       /\ totp[k] = None
       /\ totp' = [totp EXCEPT ![k] = [user |-> request[s].user, ok |-> request[s].ok]]
  /\ UNCHANGED <<row, attempts, sessions, tokens, undelayed>> /\ Return(s)

(* Both kinds of login end alike; the INSERT fails if the user has gone.     *)
newSession(s) ==
  /\ At(s, "session")
  /\ UNCHANGED <<row, attempts, totp, tokens, undelayed>>
  /\ LET r == request[s]
     IN  \/ \E k \in Sessions :
              /\ CreateSession(k, r.user, r.ok, r.code)
              /\ Goto(s, [Free EXCEPT !.pc = "token", !.id = k])
         \/ Cascade /\ ~GetUserByID(r.user) /\ UNCHANGED sessions /\ Return(s)

GenerateTokenPair(s) ==
  /\ At(s, "token")
  /\ tokens' = tokens \cup {request[s].id}
  /\ UNCHANGED <<row, attempts, totp, sessions, undelayed>> /\ Return(s)

-----------------------------------------------------------------------------
(* The second request of a login with TOTP: the TOTP session is looked up,   *)
(* the user read and the code checked, then the TOTP session removed.        *)

(* A session older than 5 minutes is refused, as if it had been removed.     *)
verifyTOTPSession(k) == totp[k] # None

verifyTOTP(s) ==
  /\ At(s, "idle")
  /\ UNCHANGED <<row, attempts, totp, sessions, tokens, undelayed>>
  /\ \E k \in Challenges :
       /\ verifyTOTPSession(k)
       /\ Goto(s, [Free EXCEPT !.pc = "code", !.id = k, !.user = totp[k].user, !.ok = totp[k].ok])

(* The code is right or wrong; neither status nor failures are looked at.    *)
LoginWithTOTP(s) ==
  /\ At(s, "code")
  /\ UNCHANGED <<row, attempts, totp, sessions, tokens, undelayed>>
  /\ \/ Return(s)
     \/ /\ GetUserByID(request[s].user)
        /\ Goto(s, [request[s] EXCEPT !.pc = "cleartotp", !.code = TRUE])

clearTOTPSession(s) ==
  /\ At(s, "cleartotp")
  /\ totp' = [totp EXCEPT ![request[s].id] = None]
  /\ UNCHANGED <<row, attempts, sessions, tokens, undelayed>>
  /\ Goto(s, [request[s] EXCEPT !.pc = "session", !.id = None])

(* Time: a TOTP session grows too old; the lookup or the cleanup removes it. *)
cleanupTOTPSessions(k) ==
  /\ totp[k] # None
  /\ totp' = [totp EXCEPT ![k] = None]
  /\ UNCHANGED <<row, attempts, sessions, tokens, undelayed>> /\ Requests(request)

-----------------------------------------------------------------------------
(* Sessions and tokens.                                                     *)

(* A token is judged by itself and its time, whatever became of the session. *)
ValidateAccessToken(k) == k \in tokens

logout(k) ==
  /\ ValidateAccessToken(k) /\ sessions[k] # None
  /\ DeleteSession(k)
  /\ UNCHANGED <<row, attempts, totp, tokens, undelayed>> /\ Requests(request)

(* The session is looked up by refresh_token, but with the session's id: no  *)
(* row has it, and the answer is always "Invalid session".                   *)
Refresh(k) ==
  LET found == {x \in GetSessionByRefreshToken(k) : GetUserByID(sessions[x].user)}
  IN  IF found = {} THEN UNCHANGED sessions
      ELSE \E x \in found, j \in {i \in Sessions : sessions[i] = None} :
             sessions' = [sessions EXCEPT ![j] = sessions[x], ![x] = None]

refresh(k) ==
  /\ Refresh(k)
  /\ UNCHANGED <<row, attempts, totp, tokens, undelayed>> /\ Requests(request)

(* Time: some sessions are over, and removed; one that is over is good for   *)
(* nothing but Refresh.                                                      *)
CleanupExpiredSessions ==
  /\ \E over \in (SUBSET {k \in Sessions : sessions[k] # None}) \ {{}} :
       sessions' = [k \in Sessions |-> IF k \in over THEN None ELSE sessions[k]]
  /\ UNCHANGED <<row, attempts, totp, tokens, undelayed>> /\ Requests(request)

TokenExpires(k) ==
  /\ k \in tokens /\ tokens' = tokens \ {k}
  /\ UNCHANGED <<row, attempts, totp, sessions, undelayed>> /\ Requests(request)

-----------------------------------------------------------------------------
(* The handlers that change users.                                          *)

createUser(u) ==
  /\ \E p \in Passwords : CreateUser(u, p)
  /\ UNCHANGED <<attempts, totp, sessions, tokens, undelayed>> /\ Requests(request)

deleteUser(u) ==
  /\ GetUserByID(u) /\ DeleteUser(u)
  /\ UNCHANGED <<attempts, totp, tokens, undelayed>> /\ Requests(request)

(* updateUser: the columns, or the password; a request that has both is one  *)
(* after the other.                                                          *)
updateUser(u) ==
  /\ GetUserByID(u)
  /\ \/ \E st \in Statuses \ {row[u].status} : UpdateUser(u, st)
     \/ \E p \in Passwords : UpdatePassword(u, p)
  /\ UNCHANGED <<attempts, totp, sessions, tokens, undelayed>> /\ Requests(request)

(* changePassword, with a token: the current password is that of the row at  *)
(* one moment, the statement comes later and may find no row.                *)
changePassword(s) ==
  /\ At(s, "idle")
  /\ UNCHANGED <<row, attempts, totp, sessions, tokens, undelayed>>
  /\ \E k \in Sessions, u \in Users :
       /\ ValidateAccessToken(k) /\ (sessions[k] # None => u = sessions[k].user)
       /\ GetUserByID(u)
       /\ Goto(s, [Free EXCEPT !.pc = "change", !.user = u])

setPassword(s) ==
  /\ At(s, "change")
  /\ IF GetUserByID(request[s].user)
     THEN \E p \in Passwords : UpdatePassword(request[s].user, p)
     ELSE UNCHANGED row
  /\ UNCHANGED <<attempts, totp, sessions, tokens, undelayed>>
  /\ Return(s)

AuthNext ==
  \/ \E s \in Slots :
       \/ login(s) \/ Login(s) \/ recordFailedAttempt(s) \/ clearFailedAttempts(s)
       \/ createTOTPSession(s) \/ newSession(s) \/ GenerateTokenPair(s)
       \/ verifyTOTP(s) \/ LoginWithTOTP(s) \/ clearTOTPSession(s)
       \/ changePassword(s) \/ setPassword(s)
  \/ \E n \in Names : cleanupFailedAttempts(n) \/ LockEnds(n)
  \/ \E k \in Challenges : cleanupTOTPSessions(k)
  \/ \E k \in Sessions : logout(k) \/ refresh(k) \/ TokenExpires(k)
  \/ CleanupExpiredSessions
  \/ \E u \in Users : createUser(u) \/ deleteUser(u) \/ updateUser(u)

-----------------------------------------------------------------------------
(* Every session is of a user who, at some moment since the login began, was *)
(* there and neither disabled nor locked, had this password and needed no    *)
(* new one; a user with a second factor has shown it.  A login in two        *)
(* requests counts as one.                                                   *)
SessionJustified ==
  \A k \in Sessions : sessions[k] # None =>
    sessions[k].ok /\ (sessions[k].user \in Totp => sessions[k].code)

(* Between two successes (or idle days) no more guesses of a name go without *)
(* a delay than there are requests at once: those that had all passed the    *)
(* check before the first of them failed.  Only the overflow of the delay    *)
(* lifts the limit.                                                          *)
GuessesDelayed ==
  \A n \in Names : \/ undelayed[n] <= Cardinality(Slots)
                   \/ attempts[n].count > ShiftLimit
=============================================================================
