------------------------------ MODULE SyncDaemon ------------------------------
(***************************************************************************)
(* The daemon that uploads what changes in a folder (cli/sync_daemon.go).  *)
(* Files change on their own; the watcher reports it for directories that  *)
(* are watched; a change starts a timer that puts off the upload.  Timers  *)
(* run their function on goroutines of their own.                          *)
(***************************************************************************)
EXTENDS Naturals, Sequences

CONSTANTS
  Watched,    \* files in directories that are there at the start
  Nested,     \* files in a directory that is made later
  MaxChanges  \* bound: changes of files

ASSUME DaemonAssumption == MaxChanges \in Nat

VARIABLES
  disk,      \* each file: the number of the change it holds, 0 if there is none
  changes,   \* changes so far
  nested,    \* that directory: "none", "made", "watched"
  events,    \* events the loop has not read
  debounce,  \* each file: the timer the map has for it, 0 for none
  timer,     \* each timer: its file, where it is, and what it has read
  tried,     \* history: changes of which an upload was tried
  unseen,    \* history: changes made where nothing watched
  daemon     \* "up", "closed" (no more events), "down"

daemonVars == <<disk, changes, nested, events, debounce, timer, tried, unseen, daemon>>

Local == Watched \cup Nested

NewSyncDaemon ==
  /\ disk = [p \in Local |-> 0] /\ changes = 0 /\ nested = "none" /\ events = <<>>
  /\ debounce = [p \in Local |-> 0] /\ timer = <<>>
  /\ tried = {} /\ unseen = {} /\ daemon = "up"

-----------------------------------------------------------------------------
(* The files, and the watcher.                                              *)

Event(op, p) ==
  events' = IF daemon = "up" THEN Append(events, [op |-> op, path |-> p]) ELSE events

Seen(p) == daemon = "up" /\ (p \in Watched \/ nested = "watched")

Change(p) ==
  /\ changes < MaxChanges /\ (p \in Nested => nested # "none")
  /\ changes' = changes + 1
  /\ disk' = [disk EXCEPT ![p] = changes + 1]
  /\ IF Seen(p) THEN Event(IF disk[p] = 0 THEN "create" ELSE "write", p) /\ UNCHANGED unseen
     ELSE unseen' = unseen \cup {changes + 1} /\ UNCHANGED events
  /\ UNCHANGED <<nested, debounce, timer, tried, daemon>>

RemoveFile(p) ==
  /\ disk[p] # 0
  /\ disk' = [disk EXCEPT ![p] = 0]
  /\ IF Seen(p) THEN Event("remove", p) ELSE UNCHANGED events
  /\ UNCHANGED <<changes, nested, debounce, timer, tried, unseen, daemon>>

MakeDirectory ==
  /\ nested = "none" /\ nested' = "made" /\ Event("directory", "nested")
  /\ UNCHANGED <<disk, changes, debounce, timer, tried, unseen, daemon>>

-----------------------------------------------------------------------------
InMap(p) == debounce[p] # 0
Stopped(t) == IF timer[t].pc = "set" THEN [timer EXCEPT ![t].pc = "done"] ELSE timer

(* Stop of a timer whose function runs already does nothing.                 *)
debounceUpload(p) ==
  LET old == IF InMap(p) THEN Stopped(debounce[p]) ELSE timer
  IN  /\ timer' = Append(old, [path |-> p, pc |-> "set", read |-> 0])
      /\ debounce' = [debounce EXCEPT ![p] = Len(timer) + 1]

(* Mutant: an event for a file that waits already is dropped.                *)
WaitsAlready(e) ==
  IF e.path \in Local /\ ~InMap(e.path) THEN debounceUpload(e.path) /\ UNCHANGED nested
  ELSE UNCHANGED <<timer, debounce, nested>>

(* A removed file is only reported to the user.  Files that were put into a  *)
(* new directory before it is watched are not looked for.                    *)
handleEvent(e) ==
  CASE e.op = "directory" -> nested' = "watched" /\ UNCHANGED <<timer, debounce>>
    [] e.op = "create" /\ disk[e.path] = 0 -> UNCHANGED <<timer, debounce, nested>>
    [] e.op = "remove" -> UNCHANGED <<timer, debounce, nested>>
    [] OTHER -> debounceUpload(e.path) /\ UNCHANGED nested

watch ==
  /\ daemon = "up" /\ events # <<>>
  /\ events' = Tail(events) /\ handleEvent(Head(events))
  /\ UNCHANGED <<disk, changes, tried, unseen, daemon>>

-----------------------------------------------------------------------------
(* The function of a timer: open the file and upload it, then delete the     *)
(* entry of the map, whichever timer it is for by now.                       *)

Fire(t) ==
  /\ timer[t].pc = "set"
  /\ timer' = [timer EXCEPT ![t].pc = "upload", ![t].read = disk[timer[t].path]]
  /\ UNCHANGED <<disk, changes, nested, events, debounce, tried, unseen, daemon>>

uploadFile(t) ==
  /\ timer[t].pc = "upload"
  /\ timer' = [timer EXCEPT ![t].pc = "forget"]
  /\ tried' = tried \cup ({timer[t].read} \ {0})
  /\ UNCHANGED <<disk, changes, nested, events, debounce, unseen, daemon>>

Forget(t) ==
  /\ timer[t].pc = "forget"
  /\ timer' = [timer EXCEPT ![t].pc = "done"]
  /\ debounce' = [debounce EXCEPT ![timer[t].path] = 0]
  /\ UNCHANGED <<disk, changes, nested, events, tried, unseen, daemon>>

-----------------------------------------------------------------------------
(* Stop: the channel and the watcher are closed; once the loop has ended the *)
(* timers of the map are stopped, those it has lost are not.                 *)
StopWatching ==
  /\ daemon = "up" /\ daemon' = "closed" /\ events' = <<>>
  /\ UNCHANGED <<disk, changes, nested, debounce, timer, tried, unseen>>

StopTimers ==
  /\ daemon = "closed" /\ daemon' = "down"
  /\ timer' = [t \in DOMAIN timer |->
       IF debounce[timer[t].path] = t /\ timer[t].pc = "set" THEN [timer[t] EXCEPT !.pc = "done"]
       ELSE timer[t]]
  /\ UNCHANGED <<disk, changes, nested, events, debounce, tried, unseen>>

DaemonNext ==
  \/ \E p \in Local : Change(p) \/ RemoveFile(p)
  \/ \E t \in DOMAIN timer : Fire(t) \/ uploadFile(t) \/ Forget(t)
  \/ MakeDirectory \/ watch \/ StopWatching \/ StopTimers

(* Goroutines go on, timers run down, and an upload returns: the client has  *)
(* a timeout.                                                                *)
DaemonFairness ==
  /\ WF_daemonVars(watch)
  /\ \A t \in 1..MaxChanges :
       WF_daemonVars(t \in DOMAIN timer /\ (Fire(t) \/ uploadFile(t) \/ Forget(t)))

-----------------------------------------------------------------------------
DaemonTypeOK ==
  /\ disk \in [Local -> 0..MaxChanges] /\ changes \in 0..MaxChanges
  /\ Len(timer) <= changes /\ debounce \in [Local -> 0..Len(timer)]
  /\ \A t \in DOMAIN timer : timer[t].pc \in {"set", "upload", "forget", "done"}

(* A timer that still runs down is the one of the map for its file, unless   *)
(* an earlier timer of the file has fired: its function, which may end after *)
(* this one was set, takes the entry of the file away, whosever it is, and   *)
(* the next change does not stop this one.  (Also exempt is a file of which  *)
(* an earlier function ended before.)                                        *)
TimersKnown ==
  \A t \in DOMAIN timer : timer[t].pc = "set" =>
    \/ debounce[timer[t].path] = t
    \/ \E s \in 1..(t - 1) : timer[s].path = timer[t].path /\ timer[s].pc \in {"forget", "done"}

(* "File modified - debounce upload": while the daemon runs, what a file is  *)
(* changed to where it is watched is uploaded once, or is overwritten or     *)
(* removed before that.                                                      *)
ChangesUploaded ==
  \A p \in Local, c \in 1..MaxChanges :
    (disk[p] = c /\ c \notin unseen) ~> (c \in tried \/ disk[p] # c \/ daemon # "up")
=============================================================================
