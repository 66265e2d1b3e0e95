------------------------------- MODULE EventLog -------------------------------
(***************************************************************************)
(* What the two event services of the server have in common: events about  *)
(* a user's files, and the connections of users they are sent to.  A       *)
(* connection is used once (its id is random).                             *)
(***************************************************************************)
EXTENDS Naturals, Sequences, SequencesExt

CONSTANTS
  Users,
  Conns,       \* connections, each of one user
  UserOf,
  Folders,
  NoFolder,    \* the empty folder id: an event of the user as a whole
  Everything,  \* a subscription to all folders ("*" of SSE, "" of WebSocket)
  Kinds,       \* events that are published
  MaxEvents    \* bound: how many

Event == [user : Users, folder : Folders \cup {NoFolder}]
Topics == Folders \cup {Everything}

ASSUME EventAssumption ==
  /\ UserOf \in [Conns -> Users] /\ Kinds \subseteq Event /\ MaxEvents \in Nat
  /\ NoFolder \notin Folders /\ Everything \notin Folders /\ NoFolder # Everything

(* An event is known by its place in published.                              *)
VARIABLES
  published,  \* history: the events sent, in order
  asked,      \* history: topics a connection has ever subscribed to
  received    \* events the client of a connection has got

logVars == <<published, asked, received>>

LogInit ==
  /\ published = <<>>
  /\ asked = [c \in Conns |-> {}]
  /\ received = [c \in Conns |-> <<>>]

LogTypeOK ==
  /\ published \in Seq(Event)
  /\ \A c \in Conns : asked[c] \subseteq Topics /\ received[c] \in Seq(DOMAIN published)

(* The filters of both services.                                             *)
Covered(e, topics) == e.folder = NoFolder \/ e.folder \in topics \/ Everything \in topics
=============================================================================
