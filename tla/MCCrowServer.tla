---------------------------- MODULE MCCrowServer ----------------------------
(***************************************************************************)
(* The server and the life of one connection, as two instances of one run: *)
(* part tells which of them moves. The other stays in its initial state,   *)
(* where every property holds.                                             *)
(***************************************************************************)
EXTENDS CrowServer

CONSTANTS Conns, None, Timeout, MaxChunks, Manners

VARIABLES part, conn, timer, queueLength, reading, writes, ready, feeding, peer

Connection == INSTANCE CrowConnection WITH worker <- feeding

connVars == <<conn, timer, queueLength, reading, writes, ready, feeding, peer>>
allVars == <<part, vars, connVars>>

OfServer(A) == part = "server" /\ A /\ UNCHANGED <<part, connVars>>
OfConnection(A) == part = "connection" /\ A /\ UNCHANGED <<part, vars>>

EitherInit == part \in {"server", "connection"} /\ Init /\ Connection!Init

EitherNext == OfServer(Next) \/ OfConnection(Connection!Next)

\* The fairness of CrowServer!Spec and of CrowConnection!FairSpec.
EitherSpec ==
    /\ EitherInit /\ [][EitherNext]_allVars
    /\ WF_allVars(OfServer(Main)) /\ WF_allVars(OfServer(Acceptor)) /\ WF_allVars(OfServer(Stop))
    /\ \A i \in Workers : WF_allVars(OfServer(WorkerInit(i) \/ WorkerExits(i)))
    /\ WF_allVars(OfConnection(\E c \in Conns : Connection!Work(c)))
    /\ WF_allVars(OfConnection(Connection!Timer))
    /\ \A c \in Conns : WF_allVars(OfConnection(Connection!ReadEnds(c)))
    /\ \A c \in Conns : WF_allVars(OfConnection(Connection!WriteEnds(c)))

\* CrowConnection: every connection ends, by its peer, by a request to close, or by
\* the timeout of a silent one, when peers hang up or reset at any moment and the
\* deadline may pass between the completion of a read and its callback. Excepted
\* are those the code leaks: a callback of theirs has thrown (the deadline or a
\* reset came before handle, or a synchronous write failed), or their peer hung up
\* before its reply. Peers read what they are sent. With several connections one
\* may lose its deadline to another.
ConnectionsEnd == Connection!ConnectionsEnd
=============================================================================
