-------------------------------- MODULE WebDAV --------------------------------
(***************************************************************************)
(* The WebDAV handler (webdav/handler.go) on the file tree.  A request     *)
(* resolves its paths one name at a time, and each of these steps is a     *)
(* query of its own.  A handler is given as what it does when a path has   *)
(* been resolved: to the id found, or None.  Locks are in memory.          *)
(***************************************************************************)
EXTENDS FileTree

CONSTANTS
  Tokens,  \* lock tokens
  Paths    \* paths clients use: sequences of names, <<>> is "/"

ASSUME PathsAssumption == Paths \subseteq Seq(Names)

VARIABLES
  locks,  \* LockStore.locks: resource -> [token, alive], alive until ExpiresAt
  held    \* history: resources locked ever since a worker's request began

vars == <<treeVars, locks, held>>

LockInit ==
  /\ locks = <<>>
  /\ held = [w \in Workers |-> {}]

(* What a lock is on: a row, or the path of a lock-null resource.            *)
Resource(i) == <<"id", i>>
NullResource(p) == <<"path", p>>
Resources == {Resource(i) : i \in Ids \cup {Root}} \cup {NullResource(p) : p \in Paths}

IsLocked(k) == k \in DOMAIN locks /\ locks[k].alive

LocksOK ==
  /\ \A k \in DOMAIN locks :
       /\ k \in Resources
       /\ locks[k] \in [token : Tokens, alive : BOOLEAN]
  /\ \A w \in Workers : \A k \in held[w] : IsLocked(k)

-----------------------------------------------------------------------------
(* Handlers: from a request and the result of its path to its next step.    *)

(* Walk path p from the top; phase says what the walk is for.                *)
Resolving(j, phase, p) == [j EXCEPT !.pc = phase, !.left = p, !.at = Root]

(* The parent must exist; whether the file exists is asked in a second walk. *)
handlePut(j, hit) ==
  CASE j.pc = "dir" -> IF hit = None THEN Idle
                       ELSE Resolving([j EXCEPT !.dst = hit], "full", j.path)
    [] j.pc = "full" -> [j EXCEPT !.src = hit, !.pc = "chunks"]

(* Mutant: the lock is not asked for.                                        *)
DeleteUnchecked(j, hit) ==
  IF hit = None THEN Idle ELSE [j EXCEPT !.src = hit, !.pc = "trash"]

handleDelete(j, hit) ==
  IF hit = None THEN Idle ELSE [j EXCEPT !.src = hit, !.pc = "lockCheck"]

handleMkCol(j, hit) ==
  CASE j.pc = "full" -> IF hit # None THEN Idle ELSE Resolving(j, "dir", Front(j.path))
    [] j.pc = "dir" -> IF hit = None THEN Idle ELSE [j EXCEPT !.dst = hit, !.pc = "lookup"]

handleCopy(j, hit) ==
  IF hit = None THEN Idle
  ELSE CASE j.pc = "src" -> Resolving([j EXCEPT !.src = hit], "dir", Front(j.dest))
         [] j.pc = "dir" -> [j EXCEPT !.dst = hit, !.pc = "copySource"]

handleMove(j, hit) ==
  IF hit = None THEN Idle
  ELSE CASE j.pc = "src" -> [j EXCEPT !.src = hit, !.pc = "lockCheck"]
         [] j.pc = "dir" -> [j EXCEPT !.dst = hit, !.pc = "update"]

(* A resource that does not exist is locked by its path.                     *)
handleLock(j, hit) ==
  [j EXCEPT !.src = IF hit = None THEN NullResource(j.path) ELSE Resource(hit), !.pc = "lock"]

(* UNLOCK goes by the token alone: no path is resolved.                      *)
handleUnlock(t) == [Idle EXCEPT !.op = "unlock", !.pc = "unlock", !.name = t]

(* GET of a file with a manifest id reads that manifest; nothing changes.    *)
handleGet(j, hit) == IF IsRow(hit) /\ ~IsFolder(hit) THEN [j EXCEPT !.src = hit, !.pc = "get"]
                     ELSE Idle

(* PROPFIND lists the folder found.                                          *)
handlePropFind(j, hit) == IF hit = None THEN Idle ELSE [j EXCEPT !.src = hit, !.pc = "list"]

Resolved(j, hit) ==
  CASE j.op = "put" -> handlePut(j, hit)
    [] j.op = "delete" -> handleDelete(j, hit)
    [] j.op = "mkcol" -> handleMkCol(j, hit)
    [] j.op = "copy" -> handleCopy(j, hit)
    [] j.op = "move" -> handleMove(j, hit)
    [] j.op = "lock" -> handleLock(j, hit)
    [] j.op = "get" -> handleGet(j, hit)
    [] j.op = "propfind" -> handlePropFind(j, hit)

-----------------------------------------------------------------------------
(* ServeHTTP: a request arrives with its path, and destination.             *)

ServeHTTP(w) ==
  \E p \in Paths, d \in Paths \ {<<>>} :
    LET Request(op, name) == [Idle EXCEPT !.op = op, !.path = p, !.dest = d, !.name = name]
        NoDest(op, name) == [Request(op, name) EXCEPT !.dest = <<>>]
        Served(j) == Arrive(w, j) /\ held' = [held EXCEPT ![w] = {k \in DOMAIN locks : IsLocked(k)}]
                     /\ UNCHANGED locks
    IN  \/ p # <<>> /\ Served(Resolving(NoDest("put", Last(p)), "dir", Front(p)))
        \/ p # <<>> /\ Served(Resolving([NoDest("mkcol", Last(p)) EXCEPT !.kind = "folder"],
                                        "full", p))
        \/ \E op \in {"delete", "get", "propfind"} : Served(Resolving(NoDest(op, None), "src", p))
        \/ \E t \in Tokens : Served(Resolving(NoDest("lock", t), "src", p))
        \/ \E t \in Tokens : Served(handleUnlock(t))
        \/ \E op \in {"copy", "move"} : Served(Resolving(Request(op, Last(d)), "src", p))

(* getFileByPath: one name per query; a name in the middle must be a folder. *)
getFileByPath(w) ==
  /\ job[w].pc \in {"dir", "full", "src"}
  /\ LET j == job[w]
         Found == GetFileByPath(j.at, Head(j.left))
     IN  \/ j.left = <<>> /\ job' = [job EXCEPT ![w] = Resolved(j, Root)]
         \/ j.left # <<>> /\ Found = {} /\ job' = [job EXCEPT ![w] = Resolved(j, None)]
         \/ j.left # <<>> /\ \E i \in Found :
              job' = [job EXCEPT ![w] =
                IF Len(j.left) = 1 THEN Resolved(j, i)
                ELSE IF IsFolder(i) THEN [j EXCEPT !.at = i, !.left = Tail(@)]
                ELSE Resolved(j, None)]
  /\ UNCHANGED <<file, next, manifests, refs, touched, requests, locks, held>>

(* DELETE and MOVE ask the lock store once, before the statement.            *)
LockCheck(w) ==
  /\ job[w].pc = "lockCheck"
  /\ job' = [job EXCEPT ![w] =
       IF IsLocked(Resource(@.src)) THEN Idle
       ELSE IF @.op = "delete" THEN [@ EXCEPT !.pc = "trash"]
       ELSE Resolving(@, "dir", Front(@.dest))]
  /\ UNCHANGED <<file, next, manifests, refs, touched, requests, locks, held>>

-----------------------------------------------------------------------------
(* PUT after its walks.                                                     *)

(* Mutant: content already stored is not counted again.                      *)
ReuseUncounted(w) ==
  /\ job[w].pc = "chunks"
  /\ job' = [job EXCEPT ![w].pc = IF job[w].src = None THEN "lookup" ELSE "manifest"]
  /\ UNCHANGED <<file, next, manifests, refs, touched, requests, locks, held>>

(* The chunk is counted, as an existing one or a new one; or a store or      *)
(* database error ends the request.  Then the row, if there is none yet.     *)
PutChunks(w) ==
  /\ job[w].pc = "chunks"
  /\ \/ /\ refs' = refs + 1
        /\ job' = [job EXCEPT ![w].pc = IF job[w].src = None THEN "lookup" ELSE "manifest"]
     \/ Finish(w) /\ UNCHANGED refs
  /\ UNCHANGED <<file, next, manifests, touched, requests, locks, held>>

(* CreateManifest, always version 1: it fails for a file that has one.       *)
PutManifest(w) ==
  /\ job[w].pc = "manifest"
  /\ LET i == job[w].src
     IN  \/ /\ i \in Ids \ manifests
            /\ \E fk \in FKModes : fk => IsRow(i)
            /\ manifests' = manifests \cup {i}
            /\ job' = [job EXCEPT ![w].pc = "link"]
         \/ /\ i \notin Ids \ manifests \/ (TRUE \in FKModes /\ ~IsRow(i))
            /\ Finish(w) /\ UNCHANGED manifests
  /\ UNCHANGED <<file, next, refs, touched, requests, locks, held>>

(* Mutant: the link is set although the row has got another one since.       *)
PutLinkNext(w) ==
  /\ job[w].pc = "link"
  /\ Write(w, IF IsRow(job[w].src) THEN [file EXCEPT ![job[w].src].link = next] ELSE file)
  /\ Finish(w)
  /\ UNCHANGED <<next, manifests, refs, requests, locks, held>>

PutLink(w) ==
  /\ job[w].pc = "link"
  /\ Write(w, IF IsRow(job[w].src) THEN [file EXCEPT ![job[w].src].link = job[w].src] ELSE file)
  /\ Finish(w)
  /\ UNCHANGED <<next, manifests, refs, requests, locks, held>>

(* The answers of GET and PROPFIND: reads of the state at that moment.       *)
Answer(w) ==
  /\ job[w].pc \in {"get", "list"}
  /\ Finish(w)
  /\ UNCHANGED <<file, next, manifests, refs, touched, requests, locks, held>>

-----------------------------------------------------------------------------
(* LockStore.                                                               *)

SetLocks(f) ==
  /\ locks' = f
  /\ held' = [w \in Workers |-> {k \in held[w] : k \in DOMAIN f /\ f[k].alive}]

(* A lock replaces any lock the resource had.                                *)
Lock(w) ==
  /\ job[w].pc = "lock"
  /\ SetLocks([k \in DOMAIN locks \cup {job[w].src} |->
                IF k = job[w].src THEN [token |-> job[w].name, alive |-> TRUE] ELSE locks[k]])
  /\ Finish(w)
  /\ UNCHANGED <<file, next, manifests, refs, touched, requests>>

(* One of the locks with the token, expired or not, goes.                    *)
Unlock(w) ==
  /\ job[w].pc = "unlock"
  /\ LET Mine == {k \in DOMAIN locks : locks[k].token = job[w].name}
     IN  \/ \E k \in Mine : SetLocks([l \in DOMAIN locks \ {k} |-> locks[l]])
         \/ Mine = {} /\ UNCHANGED <<locks, held>>
  /\ Finish(w)
  /\ UNCHANGED <<file, next, manifests, refs, touched, requests>>

(* ExpiresAt of a lock passes.                                               *)
Expire ==
  /\ \E k \in DOMAIN locks : locks[k].alive /\ SetLocks([locks EXCEPT ![k].alive = FALSE])
  /\ UNCHANGED treeVars

cleanupLoop ==
  /\ \E k \in DOMAIN locks : ~locks[k].alive
  /\ SetLocks([k \in {l \in DOMAIN locks : locks[l].alive} |-> locks[k]])
  /\ UNCHANGED treeVars

-----------------------------------------------------------------------------
(* A REST request begins or goes on; the locks do not concern it.           *)
Rest(w) == TreeStep(w) /\ UNCHANGED <<locks, held>>

DavInit == Init /\ LockInit

DavNext ==
  \/ \E w \in Workers :
       \/ Rest(w) \/ ServeHTTP(w) \/ getFileByPath(w) \/ LockCheck(w)
       \/ PutChunks(w) \/ PutManifest(w) \/ PutLink(w) \/ Answer(w) \/ Lock(w) \/ Unlock(w)
  \/ Expire \/ cleanupLoop

Spec == DavInit /\ [][DavNext]_vars

(* The state of the tree and of the locks has its type, a resource that has  *)
(* been locked throughout is locked, and names are distinct in each folder.  *)
TreeInv == TypeOK /\ LocksOK /\ NamesDistinct

(* A WebDAV DELETE or MOVE takes a resource away only if at some moment      *)
(* since it arrived nobody had it locked: the single check of IsLocked, some *)
(* steps before the statement, is enough for that.  (PUT and the REST API    *)
(* never look at the locks.)                                                 *)
LockRespected ==
  [][\A w \in Workers :
       job[w].op \in {"delete", "move"} /\ job[w].pc \in {"trash", "update"} /\ job'[w] = Idle
       => \/ Resource(job[w].src) \notin held[w]
          \/ file' = file]_vars
=============================================================================
