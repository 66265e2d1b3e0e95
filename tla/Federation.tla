------------------------------ MODULE Federation ------------------------------
(***************************************************************************)
(* The peers of a server (federation/manager.go, handlers_federation.go,   *)
(* db/federation.go): the map of peers in memory against the table         *)
(* federation_peers, and the invites.  A call writes both, one after the   *)
(* other, and holds no lock between them.  Rows are written and never read *)
(* back: their times are TEXT, which Scan does not put into a time.Time,   *)
(* so that every query that finds a row fails.                             *)
(* A server stands for its URL and its key.  Messages between servers      *)
(* change nothing yet: handleMessage acknowledges or is not implemented.   *)
(***************************************************************************)
EXTENDS Naturals

CONSTANTS
  PeerIDs,        \* ids of other servers
  Self,           \* the server's own id
  Servers,        \* URLs, each with its key
  Invites,
  Calls,          \* calls at a time
  AutoDiscovery,  \* the configuration
  Unknown

Peer == [at : Servers, status : {"active", "inactive", "pending"}]

ASSUME FederationAssumption ==
  /\ Self \notin PeerIDs /\ Unknown \notin PeerIDs \cup Peer
  /\ AutoDiscovery \in BOOLEAN

VARIABLES
  table,   \* federation_peers: id -> [at, status], or Unknown
  peers,   \* the map of the manager, likewise
  invites, \* federation_invites: those that were created
  started, \* Start was called: the loops run
  call,    \* each call in progress
  unlike   \* history: ids whose map and table may differ, as calls overlapped or failed

federation == <<table, peers, invites, started, call, unlike>>

NoCall == [pc |-> "idle", op |-> "none", id |-> Unknown, peer |-> Unknown, alone |-> FALSE]

FederationInit ==
  /\ table = [p \in PeerIDs |-> Unknown] /\ peers = table
  /\ invites = {} /\ started \in BOOLEAN
  /\ call = [k \in Calls |-> NoCall]
  /\ unlike = {}

FederationTypeOK ==
  /\ table \in [PeerIDs -> Peer \cup {Unknown}]
  /\ peers \in [PeerIDs -> Peer \cup {Unknown}]
  /\ invites \subseteq Invites /\ started \in BOOLEAN
  /\ \A k \in Calls : call[k].pc \in {"idle", "save", "remember", "forget", "ping", "update"}

-----------------------------------------------------------------------------
(* Between its two writes a call is at one of these.                         *)
Between == {"remember", "forget", "update"}
Others(k, id) == {c \in Calls \ {k} : call[c].id = id /\ call[c].pc \in Between}

(* The first write of call k: history notes a call on the same peer.         *)
FirstWrite(k, c) ==
  /\ call' = [d \in Calls |-> CASE d = k -> [c EXCEPT !.alone = Others(k, c.id) = {}]
                                [] d \in Others(k, c.id) -> [call[d] EXCEPT !.alone = FALSE]
                                [] OTHER -> call[d]]
  /\ unlike' = IF Others(k, c.id) = {} THEN unlike ELSE unlike \cup {c.id}

(* The second write of k.  If it was alone, map and table are alike again.   *)
SecondWrite(k) ==
  /\ call' = [call EXCEPT ![k] = NoCall]
  /\ unlike' = IF call[k].alone /\ call[k].op # "health" THEN unlike \ {call[k].id} ELSE unlike

Ends(k) == call' = [call EXCEPT ![k] = NoCall] /\ UNCHANGED unlike

-----------------------------------------------------------------------------
(* public_url is unique; a row of the same id is replaced.                   *)
UrlFree(p, at) == \A q \in PeerIDs \ {p} : table[q] = Unknown \/ table[q].at # at

AddFederationPeer(p, peer) == table' = [table EXCEPT ![p] = peer]

(* AddPeer in call k: not for the server's own id; the row, then the map.    *)
AddPeer(k, op, p, peer) ==
  IF p # Self /\ UrlFree(p, peer.at)
  THEN /\ AddFederationPeer(p, peer)
       /\ FirstWrite(k, [NoCall EXCEPT !.pc = "remember", !.op = op, !.id = p, !.peer = peer])
       /\ UNCHANGED <<peers, invites, started>>
  ELSE Ends(k) /\ UNCHANGED <<table, peers, invites, started>>

RememberPeer(k) ==
  /\ call[k].pc = "remember"
  /\ peers' = [peers EXCEPT ![call[k].id] = call[k].peer]
  /\ SecondWrite(k) /\ UNCHANGED <<table, invites, started>>

handleAddPeer(k) ==
  /\ call[k].pc = "idle"
  /\ \E p \in PeerIDs \cup {Self}, s \in Servers : AddPeer(k, "add", p, [at |-> s, status |-> "active"])

(* An announcement signed with the key it brings.  The manager's own         *)
(* announcements are not signed, and refused.                                *)
handleDiscover(k) ==
  /\ call[k].pc = "idle" /\ AutoDiscovery
  /\ \E p \in PeerIDs, s \in Servers : AddPeer(k, "discover", p, [at |-> s, status |-> "active"])

RemoveFederationPeer(p) == table' = [table EXCEPT ![p] = Unknown]

handleRemovePeer(k) ==
  /\ call[k].pc = "idle"
  /\ \E p \in PeerIDs :
       /\ RemoveFederationPeer(p)
       /\ FirstWrite(k, [NoCall EXCEPT !.pc = "forget", !.op = "remove", !.id = p])
  /\ UNCHANGED <<peers, invites, started>>

RemovePeer(k) ==
  /\ call[k].pc = "forget"
  /\ peers' = [peers EXCEPT ![call[k].id] = Unknown]
  /\ SecondWrite(k) /\ UNCHANGED <<table, invites, started>>

-----------------------------------------------------------------------------
(* Invites.                                                                 *)

CreateFederationInvite(i) == invites' = invites \cup {i}

handleCreateInvite(i) ==
  /\ i \notin invites /\ CreateFederationInvite(i)
  /\ UNCHANGED <<table, peers, started, call, unlike>>

(* Without a row there is nothing to find, and a row cannot be scanned.      *)
GetFederationInvite(i) == FALSE

VerifyInvite(i) == GetFederationInvite(i)

(* AcceptInvite returns at VerifyInvite: the answer is "Unauthorized".       *)
handleJoin ==
  /\ \A i \in Invites : ~VerifyInvite(i)
  /\ UNCHANGED federation

-----------------------------------------------------------------------------
(* The loops of the manager.                                                *)

GetPeer(p) == peers[p] # Unknown

(* A goroutine for a peer.  The ticks do not wait for each other.            *)
checkPeersHealth(k) ==
  /\ \E p \in PeerIDs :
       /\ GetPeer(p)
       /\ call' = [call EXCEPT ![k] = [NoCall EXCEPT !.pc = "ping", !.op = "health", !.id = p]]
  /\ UNCHANGED <<table, peers, invites, started, unlike>>

healthCheckLoop(k) == started /\ call[k].pc = "idle" /\ checkPeersHealth(k)

(* Mutant: the status is written to the map under the id, known or not.      *)
StatusOfAny(k, status) ==
  /\ \E s \in Servers :
       peers' = [peers EXCEPT ![call[k].id] = [at |-> IF @ = Unknown THEN s ELSE @.at, status |-> status]]
  /\ FirstWrite(k, [call[k] EXCEPT !.pc = "update", !.peer = [at |-> Unknown, status |-> status]])
  /\ UNCHANGED <<table, invites, started>>

(* The status of the peer that the map now has under the id; then the row.   *)
updatePeerStatus(k, status) ==
  /\ peers' = [peers EXCEPT ![call[k].id] = IF @ = Unknown THEN Unknown ELSE [@ EXCEPT !.status = status]]
  /\ FirstWrite(k, [call[k] EXCEPT !.pc = "update", !.peer = [at |-> Unknown, status |-> status]])
  /\ UNCHANGED <<table, invites, started>>

(* The peer answers, or does not.                                            *)
checkPeerHealth(k) == call[k].pc = "ping" /\ \E status \in {"active", "inactive"} : updatePeerStatus(k, status)

UpdateFederationPeerStatus(k) ==
  /\ call[k].pc = "update"
  /\ table' = [table EXCEPT ![call[k].id] =
                 IF @ = Unknown THEN Unknown ELSE [@ EXCEPT !.status = call[k].peer.status]]
  /\ SecondWrite(k) /\ UNCHANGED <<peers, invites, started>>

(* An active peer is asked for its peers; one that is not in the map is      *)
(* added in a later step.                                                    *)
discoverViaPeers(k) ==
  /\ \E q, p \in PeerIDs, s \in Servers :
       /\ GetPeer(q) /\ peers[q].status = "active" /\ ~GetPeer(p)
       /\ call' = [call EXCEPT ![k] = [NoCall EXCEPT !.pc = "save", !.op = "list", !.id = p,
                                                     !.peer = [at |-> s, status |-> "pending"]]]
  /\ UNCHANGED <<table, peers, invites, started, unlike>>

autoDiscoveryLoop(k) == started /\ AutoDiscovery /\ call[k].pc = "idle" /\ discoverViaPeers(k)

requestPeerList(k) ==
  /\ call[k].pc = "save"
  /\ AddPeer(k, "list", call[k].id, call[k].peer)

-----------------------------------------------------------------------------
(* A statement fails, its request cancelled: the call returns, and nothing   *)
(* undoes the first write.                                                   *)
StatementFails(k) ==
  /\ call[k].pc \in {"save", "update"}
  /\ call' = [call EXCEPT ![k] = NoCall]
  /\ unlike' = IF call[k].pc = "update" THEN unlike \cup {call[k].id} ELSE unlike
  /\ UNCHANGED <<table, peers, invites, started>>

(* The rows GetFederationPeers returns: the first it finds cannot be         *)
(* scanned, and Start logs the error and goes on.                            *)
GetFederationPeers == [p \in PeerIDs |-> Unknown]

loadPeers == peers' = GetFederationPeers

(* The process ends and starts again; a new manager has no peers, whether or *)
(* not Start loads them.  (The server's main program does not call Start.)   *)
Restart ==
  /\ call' = [k \in Calls |-> NoCall]
  /\ loadPeers
  /\ started' \in BOOLEAN
  /\ unlike' = {p \in PeerIDs : table[p] # Unknown}
  /\ UNCHANGED <<table, invites>>

FederationNext ==
  \/ \E k \in Calls :
       \/ handleAddPeer(k) \/ RememberPeer(k) \/ handleDiscover(k) \/ handleRemovePeer(k) \/ RemovePeer(k)
       \/ healthCheckLoop(k) \/ checkPeerHealth(k) \/ UpdateFederationPeerStatus(k)
       \/ autoDiscoveryLoop(k) \/ requestPeerList(k) \/ StatementFails(k)
  \/ \E i \in Invites : handleCreateInvite(i)
  \/ handleJoin \/ Restart

-----------------------------------------------------------------------------
(* What a message from a peer must pass: the key of its server, and active.  *)
VerifyIncomingMessage(p, s) == GetPeer(p) /\ peers[p].status = "active" /\ peers[p].at = s

(* Once the calls on a peer have returned, messages are accepted from it     *)
(* exactly as its row says, though map and table are written without a       *)
(* common lock: unless two of the calls overlapped, a status could not be    *)
(* written, or the row is from before a restart and no call has written it   *)
(* since.                                                                    *)
PeersMirrored ==
  \A p \in PeerIDs \ unlike :
    (\A k \in Calls : ~(call[k].id = p /\ call[k].pc \in Between)) =>
      /\ peers[p] = table[p]
      /\ \A s \in Servers : VerifyIncomingMessage(p, s) <=> table[p] = [at |-> s, status |-> "active"]

(* The state is well typed, and map and table agree.                         *)
FederationInv == FederationTypeOK /\ PeersMirrored
=============================================================================
