---------------------------- MODULE AgentGateway ----------------------------
(***************************************************************************)
(* AgentGateway: agents that connect over WebSockets and appear in the     *)
(* ConnectionRegistry while they are connected.                            *)
(*                                                                         *)
(* An agent that reconnects opens a new socket; the server may learn of    *)
(* the old one's end later, from its close event or a missed pong.         *)
(***************************************************************************)
EXTENDS ConnectionRegistry

VARIABLES
  socket,   \* per socket: "unused", "open", "greeted", "leaving" (asked to close
            \* before its hello), "closing" (after it) or "closed"
  owner,    \* the agent id of each socket
  agents    \* the gateway's map: agent id -> socket

gatewayVars == <<socket, owner, agents>>

GatewayInit ==
  /\ socket = [w \in Sockets |-> "unused"]
  /\ owner = [w \in Sockets |-> Absent]
  /\ agents = [g \in Agents |-> Absent]

OnConnection(w, g) ==
  /\ socket[w] = "unused"
  /\ socket' = [socket EXCEPT ![w] = "open"]
  /\ owner' = [owner EXCEPT ![w] = g]
  /\ UNCHANGED <<agents, registryVars>>

\* The first hello, which may come while the socket is closing for want of one:
\* registerAgent replaces whatever the maps hold, and the agent becomes the
\* default if there is none.
RegisterAgent(w) ==
  /\ socket[w] \in {"open", "leaving"}
  /\ socket' = [socket EXCEPT ![w] = IF @ = "open" THEN "greeted" ELSE "closing"]
  /\ LET g == owner[w]
     IN /\ agents' = [agents EXCEPT ![g] = w]
        /\ connections' = [connections EXCEPT ![g] = w]
        /\ configs' = configs \union {g}
        /\ flagged' = flagged \ {g}
        /\ defaultId' = IF defaultId = Absent THEN g ELSE defaultId
        /\ parted' = (parted \/ InCall # {})
  /\ UNCHANGED <<owner, adapter, loose, rows, rowFlag, made, call, registryFaults>>

\* The server asks a socket to close: no hello or no pong in time, or its
\* connection was removed through the API.
AskToClose(w) ==
  /\ socket[w] \in {"open", "greeted"}
  /\ socket' = [socket EXCEPT ![w] = IF @ = "open" THEN "leaving" ELSE "closing"]
  /\ UNCHANGED <<owner, agents, registryVars>>

\* Mutant of UnregisterAgent: the map is kept if it names a newer socket, the
\* registry is cleared all the same.
UnregisterAgentHalf(g, w) ==
  /\ agents' = IF agents[g] = w THEN [agents EXCEPT ![g] = Absent] ELSE agents
  /\ Forget(g)
  /\ IF defaultId = g
     THEN IF configs \subseteq {g} THEN defaultId' = Absent ELSE defaultId' \in configs \ {g}
     ELSE UNCHANGED defaultId
  /\ parted' = (parted \/ defaultId = g \/ InCall # {})

\* The agent leaves the map and the registry, whichever of its sockets closed;
\* another connection becomes the default without being marked.
UnregisterAgent(g, w) ==
  /\ agents' = [agents EXCEPT ![g] = Absent]
  /\ Forget(g)
  /\ IF defaultId = g
     THEN IF configs \subseteq {g} THEN defaultId' = Absent ELSE defaultId' \in configs \ {g}
     ELSE UNCHANGED defaultId
  /\ parted' = (parted \/ defaultId = g \/ InCall # {})

SocketCloses(w) ==
  /\ socket[w] \in {"open", "leaving", "greeted", "closing"}
  /\ socket' = [socket EXCEPT ![w] = "closed"]
  /\ IF agents[owner[w]] = Absent
     THEN UNCHANGED <<agents, registryVars>>
     ELSE /\ UnregisterAgent(owner[w], w)
          /\ UNCHANGED <<adapter, loose, rows, rowFlag, made, call, registryFaults>>
  /\ UNCHANGED owner

\* DELETE of an agent's connection: its adapter asks the socket to close.
RemoveAgent(k, g) ==
  /\ RemoveAtOnce(k, g)
  /\ socket' = [w \in Sockets |-> IF connections[g] = w THEN "closing" ELSE socket[w]]
  /\ UNCHANGED <<owner, agents>>

\* A restart drops every socket with the process.
GatewayRestart ==
  /\ Restart
  /\ socket' = [w \in Sockets |-> IF socket[w] = "unused" THEN "unused" ELSE "closed"]
  /\ agents' = [g \in Agents |-> Absent]
  /\ UNCHANGED owner

------------------------------------------------------------------------------
\* Gateway and registry agree: the registry holds an agent's adapter exactly
\* when the gateway lists its socket, and that socket has not closed, whatever
\* order hellos, late close events and deletions come in.
AgentsAgree ==
  \A g \in Agents :
    /\ connections[g] # Absent => agents[g] = connections[g] /\ socket[agents[g]] # "closed"
    /\ agents[g] # Absent => connections[g] = agents[g] \/ socket[agents[g]] = "closing"
=============================================================================
