-------------------------- MODULE ConnectionProofs --------------------------
(***************************************************************************)
(* Theorems about the connection registry and the agent gateway, for any   *)
(* number of connections, agents, sockets, callers and faults.             *)
(***************************************************************************)
EXTENDS ConnectionPoller, FiniteSetTheorems, TLAPS

CallType ==
  [op : {"none", "default", "add", "remove", "reconnect"},
   step : {"none", "unmark", "mark", "save", "disconnect", "delete", "connect", "swap"},
   id : Ids \union {Absent}, old : Ids \union {Absent}, mark : BOOLEAN,
   new : Adapters \union {Absent}, quit : Adapters \union Sockets \union {Absent}]

\* A call that will put an adapter into the map, or take one out after an await,
\* is about a direct connection.
CallOk(c) ==
  /\ c \in CallType
  /\ c.op = "add" \/ c.step \in {"save", "disconnect", "swap"} => c.id \in Links
  /\ c.step \in {"unmark", "mark", "connect"} => c.id \in Ids
  /\ c.step \in {"disconnect", "delete"} => c.op = "remove"
  /\ c.step \in {"save", "connect", "swap"} => c.new \in Adapters
  /\ c.step \in {"save", "connect"} => c.quit = Absent
  /\ c.step = "disconnect" => c.new = Absent
  /\ Handles(c) => c.op # "none"

CallsOk(f) == f \in [Callers -> CallType] /\ \A k \in Callers : CallOk(f[k])

\* What the registry's variables range over; only direct connections have rows.
RegistryShape ==
  /\ rows \subseteq Links
  /\ configs \subseteq Ids
  /\ connections \in [Ids -> Adapters \union Sockets \union {Absent}]
  /\ adapter \in [Adapters -> {"open", "lost", "closed"}]
  /\ CallsOk(call)

GatewayShape ==
  /\ socket \in [Sockets -> {"unused", "open", "leaving", "greeted", "closing", "closed"}]
  /\ owner \in [Sockets -> Agents \union {Absent}]
  /\ agents \in [Agents -> Sockets \union {Absent}]
  /\ \A w \in Sockets : socket[w] # "unused" => owner[w] \in Agents

\* A connection in the map has a config.
MapsAgree == \A i \in Ids : connections[i] # Absent => i \in configs

\* An agent's adapter is the socket the gateway lists; a listed socket is its
\* agent's own, has greeted and has not closed, and has lost its adapter only if
\* it has been asked to close.
AgentLink ==
  \A g \in Agents :
    /\ connections[g] # Absent =>
         connections[g] \in Sockets /\ agents[g] = connections[g]
    /\ agents[g] # Absent =>
         /\ owner[agents[g]] = g
         /\ socket[agents[g]] \in {"greeted", "closing"}
         /\ connections[g] = agents[g] \/ socket[agents[g]] = "closing"

ConnectionInv == RegistryShape /\ GatewayShape /\ MapsAgree /\ AgentLink

LEMMA NoCallOk == CallOk(NoCall)
  BY DEF CallOk, CallType, Handles, NoCall

LEMMA CallsUpdated ==
  ASSUME NEW f, CallsOk(f), NEW k \in Callers, NEW d, CallOk(d)
  PROVE  CallsOk([f EXCEPT ![k] = d])
  BY DEF CallsOk, CallOk

LEMMA ConnectionInitially == ConnectionInit => ConnectionInv
<1> SUFFICES ASSUME ConnectionInit PROVE ConnectionInv
  OBVIOUS
<1>1. CallsOk(call)
  BY NoCallOk DEF ConnectionInit, RegistryInit, CallsOk, CallOk
<1> QED
  BY <1>1, RegistryAssumption
  DEF ConnectionInit, RegistryInit, GatewayInit, ConnectionInv, RegistryShape, GatewayShape,
      MapsAgree, AgentLink, Ids

-----------------------------------------------------------------------------
\* Agents' adapters are none of the business of the API's calls.
AgentsUntouched ==
  \A g \in Agents : connections'[g] = connections[g]

LEMMA NewIsAdapter ==
  ASSUME FreeAdapters # {}
  PROVE  NewAdapter \in Adapters
  BY DEF NewAdapter, FreeAdapters

LEMMA EndsOk ==
  ASSUME CallsOk(call), NEW k \in Callers, Ends(k)
  PROVE  CallsOk(call')
  BY NoCallOk, CallsUpdated DEF Ends

\* Both continuations of setDefault leave a well-formed call.
LEMMA SetDefaultBeginsOk ==
  ASSUME CallsOk(call), NEW k \in Callers, NEW c, CallOk(c), c.id \in Ids,
         NEW cfgs \in SUBSET Ids, NEW flags, SetDefaultBegins(k, c, cfgs, flags)
  PROVE  CallsOk(call')
<1>1. CASE call' = [call EXCEPT ![k] = [c EXCEPT !.step = "mark"]]
  <2>1. CallOk([c EXCEPT !.step = "mark"])
    BY DEF CallOk, CallType, Handles
  <2> QED
    BY <1>1, <2>1, CallsUpdated
<1>2. CASE /\ defaultId \in cfgs
           /\ call' = [call EXCEPT ![k] = [c EXCEPT !.step = "unmark", !.old = defaultId]]
  <2>1. CallOk([c EXCEPT !.step = "unmark", !.old = defaultId])
    BY <1>2 DEF CallOk, CallType, Handles
  <2> QED
    BY <1>2, <2>1, CallsUpdated
<1> QED
  BY <1>1, <1>2 DEF SetDefaultBegins

LEMMA RegistryCallPreserves ==
  ASSUME RegistryShape, MapsAgree, NEW k \in Callers, RegistryCalls(k)
  PROVE  RegistryShape' /\ MapsAgree' /\ AgentsUntouched
<1> USE DEF RegistryShape, AgentsUntouched
<1>0. CallOk(call[k])
  BY DEF CallsOk
<1>1. CASE Unmark(k)
  <2>1. CallOk([call[k] EXCEPT !.step = "mark"])
    BY <1>0, <1>1 DEF Unmark, CallOk, CallType, Handles
  <2>2. CallsOk(call')
    BY <1>1, <2>1, CallsUpdated DEF Unmark
  <2> QED
    BY <1>0, <1>1, <2>2 DEF Unmark, MapsAgree, CallOk, adapterVars
<1>2. CASE Mark(k)
  BY <1>2, EndsOk DEF Mark, MapsAgree, adapterVars
<1>3. CASE MarkFails(k)
  BY <1>3, EndsOk DEF MarkFails, Disconnect, MapsAgree
<1>4. CASE AddSaves(k)
  <2>1. call[k].id \in Links /\ call[k].id \in Ids
    BY <1>0, <1>4 DEF AddSaves, CallOk, Ids
  <2>2. configs' \in SUBSET Ids /\ rows' \subseteq Links
    BY <1>4, <2>1 DEF AddSaves
  <2>3. CallsOk(call')
    <3>1. PICK c : c = call[k]
      OBVIOUS
    <3>2. CASE call[k].mark
      <4>1. PICK cfgs \in SUBSET Ids : cfgs = configs'
        BY <2>2
      <4>2. PICK flags : flags = flagged \ {call[k].id}
        OBVIOUS
      <4>3. SetDefaultBegins(k, c, cfgs, flags)
        BY <1>4, <3>1, <3>2, <4>1, <4>2 DEF AddSaves
      <4> QED
        BY <1>0, <2>1, <3>1, <4>3, SetDefaultBeginsOk
    <3>3. CASE ~call[k].mark
      BY <1>4, <3>3, EndsOk DEF AddSaves
    <3> QED
      BY <3>2, <3>3
  <2>4. connections' = [connections EXCEPT ![call[k].id] = call[k].new] /\ call[k].new \in Adapters
    BY <1>0, <1>4 DEF AddSaves, CallOk
  <2>5. AgentsUntouched
    BY <1>4, <2>1, <2>4, RegistryAssumption DEF AddSaves, Ids
  <2>6. MapsAgree'
    BY <1>4, <2>1, <2>4 DEF AddSaves, MapsAgree
  <2> QED
    BY <1>4, <2>1, <2>2, <2>3, <2>4, <2>5, <2>6 DEF AddSaves
<1>5. CASE AddFails(k)
  BY <1>5, EndsOk DEF AddFails, Disconnect, MapsAgree
<1>6. CASE RemoveDisconnects(k)
  <2>1. CallOk([call[k] EXCEPT !.step = "delete", !.quit = Absent]) /\ call[k].id \in Links
    BY <1>0, <1>6 DEF RemoveDisconnects, CallOk, CallType, Handles
  <2>2. CallsOk(call')
    BY <1>6, <2>1, CallsUpdated DEF RemoveDisconnects
  <2> QED
    BY <1>6, <2>1, <2>2, RegistryAssumption DEF RemoveDisconnects, Disconnect, Forget, MapsAgree, Ids
<1>7. CASE RemoveDeletes(k)
  <2>1. CallsOk(call')
    <3>1. CASE Ends(k)
      BY <3>1, EndsOk
    <3>2. CASE \E next \in configs : SetDefaultBegins(k, [call[k] EXCEPT !.id = next], configs, flagged)
      <4>1. PICK next \in configs : SetDefaultBegins(k, [call[k] EXCEPT !.id = next], configs, flagged)
        BY <3>2
      <4>2. PICK c : c = [call[k] EXCEPT !.id = next]
        OBVIOUS
      <4>3. CallOk(c) /\ c.id \in Ids
        BY <1>0, <1>7, <4>2 DEF RemoveDeletes, CallOk, CallType, Handles
      <4>4. PICK cfgs \in SUBSET Ids : cfgs = configs
        OBVIOUS
      <4>5. PICK flags : flags = flagged
        OBVIOUS
      <4> QED
        BY <4>1, <4>2, <4>3, <4>4, <4>5, SetDefaultBeginsOk
    <3> QED
      BY <1>7, <3>1, <3>2 DEF RemoveDeletes
  <2> QED
    BY <1>7, <2>1 DEF RemoveDeletes, MapsAgree, adapterVars
<1>8. CASE RemoveFails(k) \/ RemoveDisconnectFails(k)
  BY <1>8, EndsOk DEF RemoveFails, RemoveDisconnectFails, Disconnect, MapsAgree, adapterVars
<1>9. CASE ReconnectConnects(k)
  <2>1. CallOk([call[k] EXCEPT !.step = "swap", !.quit = connections[call[k].id]])
    BY <1>0, <1>9 DEF ReconnectConnects, CallOk, CallType, Handles, Ids
  <2>2. CallsOk(call')
    BY <1>9, <2>1, CallsUpdated DEF ReconnectConnects
  <2> QED
    BY <1>9, <2>1, <2>2, RegistryAssumption DEF ReconnectConnects, MapsAgree
<1>10. CASE ReconnectSwaps(k)
  <2>1. call[k].id \in Links /\ call[k].id \in Ids /\ call[k].new \in Adapters
    BY <1>0, <1>10 DEF ReconnectSwaps, CallOk, Ids
  <2>2. adapter' \in [Adapters -> {"open", "lost", "closed"}]
    BY <1>10 DEF ReconnectSwaps, Disconnect
  <2> QED
    BY <1>10, <2>1, <2>2, EndsOk, RegistryAssumption
    DEF ReconnectSwaps, RestoreConfig, MapsAgree, Ids
<1>11. CASE ReconnectFails(k)
  BY <1>0, <1>11, EndsOk DEF ReconnectFails, RestoreConfig, MapsAgree, CallOk
<1>12. ASSUME NEW i \in Links, RemoveBegins(k, i)
       PROVE  RegistryShape' /\ MapsAgree' /\ AgentsUntouched
  <2>1. CallOk([NoCall EXCEPT !.op = "remove", !.step = "disconnect", !.id = i, !.quit = connections[i]])
    BY DEF CallOk, CallType, Handles, NoCall, Ids
  <2> QED
    BY <1>12, <2>1, CallsUpdated DEF RemoveBegins, Begins, MapsAgree
<1>13. ASSUME NEW i \in Links, RemoveAtOnce(k, i)
       PROVE  RegistryShape' /\ MapsAgree' /\ AgentsUntouched
  <2>1. CallOk([NoCall EXCEPT !.op = "remove", !.step = "delete", !.id = i])
    BY DEF CallOk, CallType, Handles, NoCall, Ids
  <2>2. CallsOk(call')
    BY <1>13, <2>1, CallsUpdated DEF RemoveAtOnce, Begins
  <2> QED
    BY <1>13, <2>2, RegistryAssumption DEF RemoveAtOnce, Forget, MapsAgree, Ids
<1>14. ASSUME NEW i \in Links, NEW d \in BOOLEAN, AddConnection(k, i, d)
       PROVE  RegistryShape' /\ MapsAgree' /\ AgentsUntouched
  <2>1. CallOk([NoCall EXCEPT !.op = "add", !.step = "save", !.id = i, !.mark = d, !.new = NewAdapter])
    BY <1>14, NewIsAdapter DEF AddConnection, CallOk, CallType, Handles, NoCall, Ids
  <2> QED
    BY <1>14, <2>1, CallsUpdated DEF AddConnection, Begins, MapsAgree
<1>15. ASSUME NEW i \in Ids, SetDefault(k, i)
       PROVE  RegistryShape' /\ MapsAgree' /\ AgentsUntouched
  <2>1. PICK c : c = [NoCall EXCEPT !.op = "default", !.id = i]
    OBVIOUS
  <2>2. CallOk(c) /\ c.id \in Ids
    BY <2>1 DEF CallOk, CallType, Handles, NoCall
  <2>3. PICK cfgs \in SUBSET Ids : cfgs = configs
    OBVIOUS
  <2>4. PICK flags : flags = flagged
    OBVIOUS
  <2>5. CallsOk(call')
    BY <1>15, <2>1, <2>2, <2>3, <2>4, SetDefaultBeginsOk DEF SetDefault
  <2> QED
    BY <1>15, <2>5 DEF SetDefault, MapsAgree, adapterVars
<1>16. ASSUME NEW i \in Ids, Reconnect(k, i)
       PROVE  RegistryShape' /\ MapsAgree' /\ AgentsUntouched
  <2>1. CallOk([NoCall EXCEPT !.op = "reconnect", !.step = "connect", !.id = i,
                              !.old = IF i \in flagged THEN i ELSE Absent, !.new = NewAdapter])
    BY <1>16, NewIsAdapter DEF Reconnect, CallOk, CallType, Handles, NoCall
  <2> QED
    BY <1>16, <2>1, CallsUpdated DEF Reconnect, Begins, MapsAgree
<1> QED
  BY <1>1, <1>2, <1>3, <1>4, <1>5, <1>6, <1>7, <1>8, <1>9, <1>10, <1>11,
     <1>12, <1>13, <1>14, <1>15, <1>16
  DEF RegistryCalls, CallStep

-----------------------------------------------------------------------------
\* A step that leaves agents' adapters and the gateway alone keeps their link.
LEMMA UntouchedLink ==
  ASSUME GatewayShape, AgentLink, AgentsUntouched, UNCHANGED gatewayVars
  PROVE  GatewayShape' /\ AgentLink'
  BY DEF GatewayShape, AgentLink, AgentsUntouched, gatewayVars

LEMMA LinkPreserves ==
  ASSUME ConnectionInv, LinkNext
  PROVE  ConnectionInv'
<1>1. PICK a \in Adapters : LinkDrops(a) \/ LinkRecovers(a)
  BY DEF LinkNext
<1>2. AgentsUntouched /\ RegistryShape' /\ MapsAgree'
  BY <1>1, RegistryAssumption
  DEF LinkDrops, LinkRecovers, AgentsUntouched, ConnectionInv, RegistryShape, MapsAgree
<1> QED
  BY <1>2, UntouchedLink DEF ConnectionInv, LinkNext

LEMMA GatewayPreserves ==
  ASSUME ConnectionInv, GatewayNext(Callers)
  PROVE  ConnectionInv'
<1> USE DEF ConnectionInv
<1>0. \A g \in Agents : g \in Ids
  BY DEF Ids
<1>1. ASSUME NEW w \in Sockets, NEW g \in Agents, OnConnection(w, g) PROVE ConnectionInv'
  <2>1. RegistryShape' /\ MapsAgree'
    BY <1>1 DEF OnConnection, registryVars, adapterVars, RegistryShape, MapsAgree
  <2>2. GatewayShape'
    BY <1>1 DEF OnConnection, GatewayShape
  <2>3. AgentLink'
    BY <1>1 DEF OnConnection, registryVars, adapterVars, GatewayShape, AgentLink
  <2> QED
    BY <2>1, <2>2, <2>3
<1>2. ASSUME NEW w \in Sockets, RegisterAgent(w) PROVE ConnectionInv'
  <2>1. owner[w] \in Agents /\ owner[w] \in Ids
    BY <1>0, <1>2 DEF RegisterAgent, GatewayShape
  <2>2. RegistryShape' /\ MapsAgree'
    BY <1>2, <2>1 DEF RegisterAgent, RegistryShape, MapsAgree
  <2>3. GatewayShape'
    BY <1>2, <2>1 DEF RegisterAgent, GatewayShape
  <2>4. AgentLink'
    <3> SUFFICES ASSUME NEW h \in Agents PROVE AgentLink!(h)'
      BY DEF AgentLink
    <3>1. CASE h = owner[w]
      BY <1>0, <1>2, <2>1, <3>1 DEF RegisterAgent, GatewayShape, RegistryShape, AgentLink
    <3>2. CASE h # owner[w]
      BY <1>0, <1>2, <2>1, <3>2, RegistryAssumption
      DEF RegisterAgent, GatewayShape, RegistryShape, AgentLink
    <3> QED
      BY <3>1, <3>2
  <2> QED
    BY <2>2, <2>3, <2>4
<1>3. ASSUME NEW w \in Sockets, AskToClose(w) PROVE ConnectionInv'
  <2>1. RegistryShape' /\ MapsAgree'
    BY <1>3 DEF AskToClose, registryVars, adapterVars, RegistryShape, MapsAgree
  <2>2. GatewayShape'
    BY <1>3 DEF AskToClose, GatewayShape
  <2>3. AgentLink'
    BY <1>3 DEF AskToClose, registryVars, adapterVars, GatewayShape, AgentLink
  <2> QED
    BY <2>1, <2>2, <2>3
<1>4. ASSUME NEW w \in Sockets, SocketCloses(w) PROVE ConnectionInv'
  <2>1. owner[w] \in Agents /\ owner[w] \in Ids
    BY <1>0, <1>4 DEF SocketCloses, GatewayShape
  <2>2. GatewayShape'
    BY <1>4, <2>1 DEF SocketCloses, UnregisterAgent, GatewayShape
  <2>3. CASE agents[owner[w]] = Absent
    <3>1. RegistryShape' /\ MapsAgree'
      BY <1>4, <2>3 DEF SocketCloses, registryVars, adapterVars, RegistryShape, MapsAgree
    <3>2. AgentLink'
      BY <1>4, <2>1, <2>3 DEF SocketCloses, registryVars, adapterVars, GatewayShape, AgentLink
    <3> QED
      BY <2>2, <3>1, <3>2
  <2>4. CASE agents[owner[w]] # Absent
    <3>1. RegistryShape' /\ MapsAgree'
      BY <1>4, <2>1, <2>4
      DEF SocketCloses, UnregisterAgent, Forget, RegistryShape, MapsAgree
    <3>2. AgentLink'
      BY <1>0, <1>4, <2>1, <2>4
      DEF SocketCloses, UnregisterAgent, Forget, GatewayShape, RegistryShape, AgentLink
    <3> QED
      BY <2>2, <3>1, <3>2
  <2> QED
    BY <2>3, <2>4
<1>5. ASSUME NEW k \in Callers, NEW g \in Agents, RemoveAgent(k, g) PROVE ConnectionInv'
  <2>1. CallOk([NoCall EXCEPT !.op = "remove", !.step = "delete", !.id = g])
    BY <1>0 DEF CallOk, CallType, Handles, NoCall
  <2>2. CallsOk(call')
    BY <1>5, <2>1, CallsUpdated DEF RemoveAgent, RemoveAtOnce, Begins, RegistryShape
  <2>3. RegistryShape' /\ MapsAgree'
    BY <1>0, <1>5, <2>2
    DEF RemoveAgent, RemoveAtOnce, Forget, RegistryShape, MapsAgree
  <2>4. GatewayShape'
    <3>1. \A w \in Sockets : connections[g] = w => owner[w] \in Agents
      BY RegistryAssumption DEF AgentLink
    <3> QED
      BY <1>5, <3>1 DEF RemoveAgent, GatewayShape
  <2>5. AgentLink'
    BY <1>0, <1>5
    DEF RemoveAgent, RemoveAtOnce, Forget, GatewayShape, RegistryShape, AgentLink
  <2> QED
    BY <2>3, <2>4, <2>5
<1> QED
  BY <1>1, <1>2, <1>3, <1>4, <1>5 DEF GatewayNext

LEMMA OneOfThem ==
  ASSUME NEW S
  PROVE  OneOf(S) \subseteq S
  BY DEF OneOf

\* The next start gives every row an adapter; those that failed are loose.
LEMMA RestartGives ==
  ASSUME RestartAdapters
  PROVE  \E f \in [rows' -> Adapters] :
           /\ connections' = [i \in Ids |-> IF i \in rows' THEN f[i] ELSE Absent]
           /\ adapter' \in [Adapters -> {"open", "lost", "closed"}]
           /\ \A a \in Adapters : adapter'[a] # "closed" => a \in loose' \/ \E i \in rows' : f[i] = a
<1>1. PICK lost \in SUBSET rows' :
        \E f \in OneOf({g \in [rows' -> Adapters] : \A i, j \in rows' : g[i] = g[j] => i = j}) :
          \E n \in 0..Cardinality(lost) :
            \E failed \in OneOf({F \in SUBSET (Adapters \ {f[i] : i \in rows'}) : Cardinality(F) = n}) :
              /\ connections' = [i \in Ids |-> IF i \in rows' THEN f[i] ELSE Absent]
              /\ adapter' = [a \in Adapters |->
                               IF a \in failed \union {f[i] : i \in lost} THEN "lost"
                               ELSE IF a \in {f[i] : i \in rows'} THEN "open" ELSE "closed"]
              /\ loose' = failed
  BY DEF RestartAdapters
<1>2. PICK f \in OneOf({g \in [rows' -> Adapters] : \A i, j \in rows' : g[i] = g[j] => i = j}) :
        \E failed :
          /\ connections' = [i \in Ids |-> IF i \in rows' THEN f[i] ELSE Absent]
          /\ adapter' = [a \in Adapters |->
                           IF a \in failed \union {f[i] : i \in lost} THEN "lost"
                           ELSE IF a \in {f[i] : i \in rows'} THEN "open" ELSE "closed"]
          /\ loose' = failed
  BY <1>1
<1>3. f \in [rows' -> Adapters]
  <2>1. PICK S : S = {g \in [rows' -> Adapters] : \A i, j \in rows' : g[i] = g[j] => i = j}
    OBVIOUS
  <2>2. f \in S
    BY <1>2, <2>1, OneOfThem
  <2> QED
    BY <2>1, <2>2
<1> QED
  BY <1>2, <1>3

LEMMA RestartPreserves ==
  ASSUME ConnectionInv, RestartAll
  PROVE  ConnectionInv'
<1>1. rows' \subseteq Links
  BY RegistryAssumption DEF RestartAll, GatewayRestart, Restart, ConnectionInv, RegistryShape
<1>2. CallsOk(call')
  BY NoCallOk DEF RestartAll, GatewayRestart, Restart, CallsOk, CallOk
<1>3. RegistryShape' /\ MapsAgree'
  <2>1. configs' = rows' /\ RestartAdapters
    BY DEF RestartAll, GatewayRestart, Restart
  <2>2. PICK f \in [rows' -> Adapters] :
           /\ connections' = [i \in Ids |-> IF i \in rows' THEN f[i] ELSE Absent]
           /\ adapter' \in [Adapters -> {"open", "lost", "closed"}]
    BY <2>1, RestartGives
  <2> QED
    BY <1>1, <1>2, <2>1, <2>2 DEF RegistryShape, MapsAgree, Ids
<1>4. GatewayShape'
  BY DEF RestartAll, GatewayRestart, ConnectionInv, GatewayShape
<1>5. AgentLink'
  BY <1>1, RegistryAssumption DEF RestartAll, GatewayRestart, Restart, RestartAdapters, AgentLink, Ids
<1> QED
  BY <1>3, <1>4, <1>5 DEF ConnectionInv

LEMMA ConnectionInductive ==
  ConnectionInv /\ [ConnectionNext]_connectionVars => ConnectionInv'
<1> SUFFICES ASSUME ConnectionInv, [ConnectionNext]_connectionVars
             PROVE  ConnectionInv'
  OBVIOUS
<1>1. CASE RegistryNext(Callers)
  <2>1. ASSUME NEW k \in Callers, RegistryCalls(k)
        PROVE  RegistryShape' /\ MapsAgree' /\ AgentsUntouched
    BY <2>1, RegistryCallPreserves DEF ConnectionInv
  <2>2. ASSUME NEW i \in Links, AddRefused(i)
        PROVE  RegistryShape' /\ MapsAgree' /\ AgentsUntouched
    BY <2>2 DEF AddRefused, ConnectionInv, RegistryShape, MapsAgree, AgentsUntouched
  <2> QED
    BY <1>1, <2>1, <2>2, UntouchedLink DEF ConnectionInv, RegistryNext
<1>2. CASE GatewayNext(Callers)
  BY <1>2, GatewayPreserves
<1>3. CASE LinkNext
  BY <1>3, LinkPreserves
<1>4. CASE PollerNext \/ UNCHANGED connectionVars
  BY <1>4
  DEF PollerNext, PollTick, PollTickEnds, PollEnds, connectionVars, registryVars, adapterVars, gatewayVars,
      ConnectionInv, RegistryShape, GatewayShape, MapsAgree, AgentLink
<1>5. CASE RestartAll
  BY <1>5, RestartPreserves
<1> QED
  BY <1>1, <1>2, <1>3, <1>4, <1>5 DEF ConnectionNext

LEMMA ConnectionInvariant == ConnectionSpec => []ConnectionInv
  BY ConnectionInitially, ConnectionInductive, PTL DEF ConnectionSpec

\* The gateway's map of agents and the registry's adapters agree, whatever order
\* hellos, heartbeats, late closes of superseded sockets and deletions come in.
THEOREM AgentsConsistent == ConnectionSpec => []AgentsAgree
<1>1. ConnectionInv => AgentsAgree
  BY RegistryAssumption DEF ConnectionInv, GatewayShape, AgentLink, AgentsAgree
<1> QED
  BY <1>1, ConnectionInvariant, PTL

-----------------------------------------------------------------------------
(* No adapter is left behind *)

\* Each adapter in S is disconnected or accounted for as loose.
SafeIn(S, ad, ls) == \A a \in S \intersect Adapters : ad[a] = "closed" \/ a \in ls

\* The call's new adapter is not in the map yet.
Holder(c) == c.step \in {"save", "connect", "swap"}
Quits(c) == c.step \in {"disconnect", "swap"}
Hands(c) == {c.new, c.quit}

\* Ids are used once.
IdsMade ==
  /\ rows \union {EnvDefault} \subseteq made
  /\ configs \intersect Links \subseteq made
  /\ \A k \in Callers : call[k].id \in Links => call[k].id \in made

\* Nobody but the call that makes a connection knows it before it is saved.
Fresh(f, cn, cfg) ==
  \A k \in Callers : f[k].step = "save" =>
    /\ f[k].id \notin cfg /\ cn[f[k].id] = Absent
    /\ \A j \in Callers \ {k} : f[j].id = f[k].id => f[j].step = "delete"

\* A new adapter is in one call's hands only.
Exclusive(f, cn) ==
  \A k \in Callers : Holder(f[k]) =>
    /\ \A i \in Ids : cn[i] # f[k].new
    /\ \A j \in Callers : f[j].quit # f[k].new /\ (j # k => f[j].new # f[k].new)

Connecting(f, ad) == \A k \in Callers : f[k].step = "connect" => ad[f[k].new] # "closed"

\* What two calls on one connection handle is loose.
Raced(f, cn, ad, ls) ==
  \A j, k \in Callers :
    j # k /\ Handles(f[j]) /\ Handles(f[k]) /\ f[j].id = f[k].id =>
      SafeIn(Hands(f[j]) \union Hands(f[k]) \union {cn[f[k].id]}, ad, ls)

\* The adapter a call disconnects is still the one in the map, or both are loose.
Quitting(f, cn, ad, ls) ==
  \A k \in Callers : Quits(f[k]) =>
    cn[f[k].id] = f[k].quit \/ SafeIn({f[k].quit, cn[f[k].id]}, ad, ls)

AdapterInv ==
  /\ IdsMade
  /\ Fresh(call, connections, configs)
  /\ Exclusive(call, connections)
  /\ Connecting(call, adapter)
  /\ Raced(call, connections, adapter, loose)
  /\ Quitting(call, connections, adapter, loose)
  /\ OpenIsListed

\* No step reopens an adapter that somebody holds, or forgets that it is loose.
Stays ==
  \A a \in Adapters \ FreeAdapters :
    /\ adapter[a] = "closed" => adapter'[a] = "closed"
    /\ a \in loose => a \in loose' \/ adapter'[a] = "closed"

\* Caller k's step disconnects nothing but what is in its hands.
Closes(k) ==
  \A a \in Adapters : adapter'[a] = "closed" => adapter[a] = "closed" \/ a \in Hands(call[k])

\* What is held is not free.
LEMMA HeldNotFree ==
  /\ \A i \in Ids : connections[i] \notin FreeAdapters
  /\ \A k \in Callers : call[k].new \notin FreeAdapters /\ call[k].quit \notin FreeAdapters
  BY DEF FreeAdapters

\* A call lets go of what it has in its hands: caller k goes on to c, and id i is
\* given the adapter v.
LetsGo(k, c, i, v) ==
  /\ call' = [call EXCEPT ![k] = c] /\ ~Handles(c)
  /\ c.new \in {call[k].new, Absent} /\ c.quit \in {call[k].quit, Absent}
  /\ connections' = [connections EXCEPT ![i] = v]
  /\ v \in {Absent, connections[i]} \/ (Holder(call[k]) /\ i = call[k].id /\ v = call[k].new)

\* To the others that handle i, v is nothing new, or loose.
Yields(k, i, v) ==
  \A j \in Callers \ {k} : Handles(call[j]) /\ call[j].id = i =>
    \/ v = connections[i]
    \/ /\ SafeIn({v}, adapter', loose')
       /\ Quits(call[j]) => SafeIn({call[j].quit}, adapter', loose')

\* The ids the call names, and the maps and rows it writes.
Names(k, c) ==
  /\ made' = made /\ rows' \subseteq rows \union ({call[k].id} \intersect Links)
  /\ \/ configs' \subseteq configs
     \/ call[k].step # "delete" /\ configs' \subseteq configs \union {call[k].id}
  /\ \/ c.id \in configs \union {Absent}
     \/ c.id = call[k].id /\ call[k].step # "delete"
     \/ c.step = "delete" /\ c.id \in made \union configs \union {call[k].id}

\* Nothing is opened, and what the map or the call held has gone or is listed.
Leaves(k, i, v) ==
  /\ configs \ {i} \subseteq configs'
  /\ \A a \in Adapters : adapter[a] = "closed" => adapter'[a] = "closed"
  /\ \A a \in Adapters :
       a = connections[i] \/ (Handles(call[k]) /\ a \in Hands(call[k])) =>
         adapter'[a] = "closed" \/ a \in loose' \/ (a = v /\ i \in configs')

LEMMA LetsGoHolds ==
  ASSUME RegistryShape, AdapterInv, NEW k \in Callers, NEW c, NEW i \in Ids, NEW v,
         LetsGo(k, c, i, v), Yields(k, i, v), Stays, Closes(k)
  PROVE  /\ Exclusive(call', connections') /\ Connecting(call', adapter')
         /\ Raced(call', connections', adapter', loose')
         /\ Quitting(call', connections', adapter', loose')
<1>1. call \in [Callers -> CallType] /\ connections \in [Ids -> Adapters \union Sockets \union {Absent}]
  BY DEF RegistryShape, CallsOk
<1>2. call'[k] = c /\ \A j \in Callers \ {k} : call'[j] = call[j]
  BY <1>1 DEF LetsGo
<1>3. \A h \in Ids : connections'[h] = IF h = i THEN v ELSE connections[h]
  BY <1>1 DEF LetsGo
<1>4. \A j \in Callers : Holder(call[j]) => call[j].new \in Adapters
  BY DEF RegistryShape, CallsOk, CallOk, Holder
<1>5. ~Holder(c) /\ ~Quits(c) /\ c.step # "connect"
  BY DEF LetsGo, Handles, Holder, Quits
<1>6. Exclusive(call', connections')
  <2> SUFFICES ASSUME NEW j \in Callers, Holder(call'[j])
               PROVE  /\ \A h \in Ids : connections'[h] # call'[j].new
                      /\ \A l \in Callers : /\ call'[l].quit # call'[j].new
                                            /\ l # j => call'[l].new # call'[j].new
    BY DEF Exclusive
  <2>1. j # k /\ call'[j] = call[j] /\ call[j].new \in Adapters /\ Holder(call[j])
    BY <1>2, <1>4, <1>5
  <2>2. \A l \in Callers : call[l].quit # call[j].new /\ (l # j => call[l].new # call[j].new)
    BY <2>1 DEF AdapterInv, Exclusive
  <2>3. \A h \in Ids : connections'[h] # call[j].new
    BY <1>3, <2>1, <2>2, RegistryAssumption DEF LetsGo, AdapterInv, Exclusive
  <2>4. \A l \in Callers : call'[l].quit # call[j].new /\ (l # j => call'[l].new # call[j].new)
    BY <1>2, <2>1, <2>2, RegistryAssumption DEF LetsGo
  <2> QED
    BY <2>1, <2>3, <2>4
<1>7. Connecting(call', adapter')
  <2> SUFFICES ASSUME NEW j \in Callers, call'[j].step = "connect"
               PROVE  adapter'[call'[j].new] # "closed"
    BY DEF Connecting
  <2>1. j # k /\ call'[j] = call[j] /\ call[j].new \in Adapters /\ Holder(call[j])
    BY <1>2, <1>4, <1>5 DEF Holder
  <2>2. adapter[call[j].new] # "closed" /\ call[j].new \notin Hands(call[k])
    BY <2>1 DEF AdapterInv, Connecting, Exclusive, Hands
  <2> QED
    BY <2>1, <2>2 DEF Closes
<1>8. Raced(call', connections', adapter', loose')
  <2> SUFFICES ASSUME NEW j \in Callers, NEW l \in Callers, j # l,
                      Handles(call'[j]), Handles(call'[l]), call'[j].id = call'[l].id
               PROVE  SafeIn(Hands(call'[j]) \union Hands(call'[l]) \union {connections'[call'[l].id]},
                             adapter', loose')
    BY DEF Raced
  <2>1. /\ j # k /\ l # k /\ call'[j] = call[j] /\ call'[l] = call[l]
        /\ Handles(call[j]) /\ Handles(call[l]) /\ call[j].id = call[l].id
    BY <1>2 DEF LetsGo
  <2>2. call[l].id \in Ids
    BY <2>1 DEF RegistryShape, CallsOk, CallOk, Handles, Ids
  <2>3. SafeIn(Hands(call[j]) \union Hands(call[l]) \union {connections[call[l].id]}, adapter, loose)
    BY <2>1 DEF AdapterInv, Raced
  <2>4. SafeIn(Hands(call[j]) \union Hands(call[l]) \union {connections[call[l].id]}, adapter', loose')
    BY <2>2, <2>3, HeldNotFree DEF SafeIn, Stays, Hands
  <2>5. connections'[call[l].id] = connections[call[l].id]
        \/ SafeIn({connections'[call[l].id]}, adapter', loose')
    <3>1. CASE call[l].id = i
      <4>1. v = connections[i] \/ SafeIn({v}, adapter', loose')
        BY <2>1, <3>1 DEF Yields
      <4> QED
        BY <1>3, <2>2, <3>1, <4>1 DEF SafeIn
    <3>2. CASE call[l].id # i
      BY <1>3, <2>2, <3>2
    <3> QED
      BY <3>1, <3>2
  <2> QED
    BY <2>1, <2>4, <2>5 DEF SafeIn
<1>9. Quitting(call', connections', adapter', loose')
  <2> SUFFICES ASSUME NEW j \in Callers, Quits(call'[j])
               PROVE  \/ connections'[call'[j].id] = call'[j].quit
                      \/ SafeIn({call'[j].quit, connections'[call'[j].id]}, adapter', loose')
    BY DEF Quitting
  <2>1. j # k /\ call'[j] = call[j] /\ Handles(call[j])
    BY <1>2, <1>5 DEF Handles, Quits
  <2>2. call[j].id \in Ids
    BY <2>1 DEF RegistryShape, CallsOk, CallOk, Handles, Ids
  <2>3. \/ connections[call[j].id] = call[j].quit
        \/ SafeIn({call[j].quit, connections[call[j].id]}, adapter, loose)
    BY <2>1 DEF AdapterInv, Quitting
  <2>4. \/ connections[call[j].id] = call[j].quit
        \/ SafeIn({call[j].quit, connections[call[j].id]}, adapter', loose')
    BY <2>2, <2>3, HeldNotFree DEF SafeIn, Stays
  <2>5. \/ connections'[call[j].id] = connections[call[j].id]
        \/ SafeIn({call[j].quit, connections'[call[j].id]}, adapter', loose')
    BY <1>3, <2>1, <2>2 DEF Yields, SafeIn
  <2> QED
    BY <2>1, <2>4, <2>5
<1> QED
  BY <1>6, <1>7, <1>8, <1>9

LEMMA LetsGoNames ==
  ASSUME RegistryShape, AdapterInv, NEW k \in Callers, NEW c, NEW i \in Ids, NEW v,
         LetsGo(k, c, i, v), Names(k, c)
  PROVE  IdsMade' /\ Fresh(call', connections', configs')
<1>1. call \in [Callers -> CallType] /\ connections \in [Ids -> Adapters \union Sockets \union {Absent}]
  BY DEF RegistryShape, CallsOk
<1>2. call'[k] = c /\ \A j \in Callers \ {k} : call'[j] = call[j]
  BY <1>1 DEF LetsGo
<1>3. \A h \in Ids : connections'[h] = IF h = i THEN v ELSE connections[h]
  BY <1>1 DEF LetsGo
<1>4. IdsMade'
  <2>1. /\ rows \union {EnvDefault} \subseteq made /\ configs \intersect Links \subseteq made
        /\ \A j \in Callers : call[j].id \in Links => call[j].id \in made
    BY DEF AdapterInv, IdsMade
  <2>2. rows' \union {EnvDefault} \subseteq made' /\ configs' \intersect Links \subseteq made'
    BY <2>1 DEF Names
  <2>3. \A j \in Callers : call'[j].id \in Links => call'[j].id \in made'
    BY <1>2, <2>1, RegistryAssumption DEF Names
  <2> QED
    BY <2>2, <2>3 DEF IdsMade
<1>5. Fresh(call', connections', configs')
  <2> SUFFICES ASSUME NEW j \in Callers, call'[j].step = "save"
               PROVE  /\ call'[j].id \notin configs' /\ connections'[call'[j].id] = Absent
                      /\ \A l \in Callers \ {j} : call'[l].id = call'[j].id => call'[l].step = "delete"
    BY DEF Fresh
  <2>1. j # k /\ call'[j] = call[j] /\ call[j].step = "save"
    BY <1>2 DEF LetsGo, Handles
  <2>2. call[j].id \in Links /\ call[j].id \in Ids
    BY <2>1 DEF RegistryShape, CallsOk, CallOk, Ids
  <2>3. /\ call[j].id \notin configs /\ connections[call[j].id] = Absent
        /\ \A l \in Callers \ {j} : call[l].id = call[j].id => call[l].step = "delete"
    BY <2>1 DEF AdapterInv, Fresh
  <2>4. call[j].id \notin configs'
    BY <2>1, <2>3 DEF Names
  <2>5. connections'[call[j].id] = Absent
    BY <1>3, <2>1, <2>2, <2>3 DEF LetsGo, Holder
  <2>6. c.id = call[j].id => c.step = "delete"
    BY <2>1, <2>2, <2>3, RegistryAssumption DEF Names
  <2> QED
    BY <1>2, <2>1, <2>3, <2>4, <2>5, <2>6
<1> QED
  BY <1>4, <1>5

LEMMA LetsGoListed ==
  ASSUME RegistryShape, AdapterInv, NEW k \in Callers, NEW c, NEW i \in Ids, NEW v,
         LetsGo(k, c, i, v), Leaves(k, i, v), Stays
  PROVE  OpenIsListed'
<1>1. call \in [Callers -> CallType] /\ connections \in [Ids -> Adapters \union Sockets \union {Absent}]
  BY DEF RegistryShape, CallsOk
<1>2. \A j \in Callers \ {k} : call'[j] = call[j]
  BY <1>1 DEF LetsGo
<1>3. \A h \in Ids : connections'[h] = IF h = i THEN v ELSE connections[h]
  BY <1>1 DEF LetsGo
<1> SUFFICES ASSUME NEW a \in Adapters, adapter'[a] # "closed", a \notin loose'
             PROVE  \/ \E h \in configs' : connections'[h] = a
                    \/ \E j \in InCall' : Handles(call'[j]) /\ a \in {call'[j].new, call'[j].quit}
  BY DEF OpenIsListed
<1>4. adapter[a] # "closed" /\ a \notin FreeAdapters /\ a \notin loose
  BY DEF Leaves, Stays, FreeAdapters
<1>5. CASE \E h \in configs : connections[h] = a
  <2>1. PICK h \in configs : connections[h] = a
    BY <1>5
  <2>2. h \in Ids
    BY DEF RegistryShape
  <2>3. CASE h = i
    <3>1. v = a /\ i \in configs'
      BY <2>1, <2>3 DEF Leaves
    <3> QED
      BY <1>3, <2>2, <2>3, <3>1
  <2>4. CASE h # i
    BY <1>3, <2>1, <2>2, <2>4 DEF Leaves
  <2> QED
    BY <2>3, <2>4
<1>6. CASE \E j \in InCall : Handles(call[j]) /\ a \in {call[j].new, call[j].quit}
  <2>1. PICK j \in InCall : Handles(call[j]) /\ a \in {call[j].new, call[j].quit}
    BY <1>6
  <2>2. CASE j = k
    <3>1. v = a /\ i \in configs'
      BY <2>1, <2>2 DEF Leaves, Hands
    <3> QED
      BY <1>3, <3>1
  <2>3. CASE j # k
    BY <1>2, <2>1, <2>3 DEF InCall
  <2> QED
    BY <2>2, <2>3
<1> QED
  BY <1>4, <1>5, <1>6 DEF AdapterInv, OpenIsListed

\* Together.
Passes(k, c, i, v) ==
  /\ LetsGo(k, c, i, v) /\ Yields(k, i, v) /\ Stays /\ Closes(k)
  /\ Names(k, c) /\ Leaves(k, i, v)

LEMMA PassesKeeps ==
  ASSUME RegistryShape, AdapterInv, NEW k \in Callers, NEW c, NEW i \in Ids, NEW v,
         Passes(k, c, i, v)
  PROVE  AdapterInv'
<1>1. /\ LetsGo(k, c, i, v) /\ Yields(k, i, v) /\ Stays /\ Closes(k)
      /\ Names(k, c) /\ Leaves(k, i, v)
  BY DEF Passes
<1>2. /\ Exclusive(call', connections') /\ Connecting(call', adapter')
      /\ Raced(call', connections', adapter', loose')
      /\ Quitting(call', connections', adapter', loose')
  BY <1>1, LetsGoHolds
<1>3. IdsMade' /\ Fresh(call', connections', configs')
  BY <1>1, LetsGoNames
<1>4. OpenIsListed'
  BY <1>1, LetsGoListed
<1> QED
  BY <1>2, <1>3, <1>4 DEF AdapterInv

-----------------------------------------------------------------------------
\* A call that has no adapter in its hands, or gives up on one.
LEMMA QuietPasses ==
  ASSUME RegistryShape, AdapterInv, NEW k \in Callers, NEW c,
         call' = [call EXCEPT ![k] = c], ~Handles(c),
         c.new \in {call[k].new, Absent}, c.quit \in {call[k].quit, Absent},
         UNCHANGED connections, Stays, Closes(k), Names(k, c), configs \subseteq configs',
         MapsAgree,
         \A a \in Adapters : adapter[a] = "closed" => adapter'[a] = "closed",
         \A a \in Adapters :
           Handles(call[k]) /\ a \in Hands(call[k]) =>
             \/ adapter'[a] = "closed" \/ a \in loose'
             \/ call[k].id \in Ids /\ a = connections[call[k].id]
  PROVE  AdapterInv'
<1>1. PICK i \in Ids : call[k].id \in Ids => i = call[k].id
  BY RegistryAssumption DEF Ids
<1>2. PICK v : v = connections[i]
  OBVIOUS
<1>3. connections' = [connections EXCEPT ![i] = v]
  BY <1>1, <1>2 DEF RegistryShape
<1>4. LetsGo(k, c, i, v) /\ Yields(k, i, v)
  BY <1>2, <1>3 DEF LetsGo, Yields
<1>5. Leaves(k, i, v)
  <2>1. v \in Adapters => i \in configs'
    BY <1>1, <1>2, RegistryAssumption DEF MapsAgree
  <2> QED
    BY <1>1, <1>2, <2>1 DEF Leaves
<1> QED
  BY <1>4, <1>5, PassesKeeps DEF Passes

\* Where setDefault is at its first await.
LEMMA SetDefaultAwaits ==
  ASSUME NEW k, NEW c \in CallType, NEW cfgs, NEW flags, SetDefaultBegins(k, c, cfgs, flags)
  PROVE  \E e : /\ call' = [call EXCEPT ![k] = e] /\ e.id = c.id /\ e.op = c.op /\ e.mark = c.mark
               /\ e.new = c.new /\ e.quit = c.quit /\ e.step \in {"unmark", "mark"}
<1>1. CASE call' = [call EXCEPT ![k] = [c EXCEPT !.step = "mark"]]
  <2>1. PICK e : e = [c EXCEPT !.step = "mark"]
    OBVIOUS
  <2>2. /\ e.id = c.id /\ e.op = c.op
        /\ e.mark = c.mark /\ e.new = c.new /\ e.quit = c.quit /\ e.step = "mark"
    BY <2>1 DEF CallType
  <2>3. call' = [call EXCEPT ![k] = e]
    BY <1>1, <2>1
  <2>4. QED
    BY <2>2, <2>3
<1>2. CASE call' = [call EXCEPT ![k] = [c EXCEPT !.step = "unmark", !.old = defaultId]]
  <2>1. PICK e : e = [c EXCEPT !.step = "unmark", !.old = defaultId]
    OBVIOUS
  <2>2. /\ e.id = c.id /\ e.op = c.op
        /\ e.mark = c.mark /\ e.new = c.new /\ e.quit = c.quit /\ e.step = "unmark"
    BY <2>1 DEF CallType
  <2>3. call' = [call EXCEPT ![k] = e]
    BY <1>2, <2>1
  <2>4. QED
    BY <2>2, <2>3
<1>3. QED
  BY <1>1, <1>2 DEF SetDefaultBegins

\* setDefault, and every call that ends with an error.
LEMMA QuietSteps ==
  ASSUME RegistryShape, MapsAgree, AdapterInv, NEW k \in Callers,
         \/ Unmark(k) \/ Mark(k) \/ MarkFails(k) \/ AddFails(k) \/ RemoveDisconnectFails(k)
         \/ RemoveDeletes(k) \/ RemoveFails(k) \/ ReconnectFails(k) \/ \E i \in Ids : SetDefault(k, i)
  PROVE  AdapterInv'
<1>1. call \in [Callers -> CallType] /\ call[k] \in CallType /\ CallOk(call[k])
  BY DEF RegistryShape, CallsOk
<1>2. PICK n : n = NoCall
  OBVIOUS
<1>3. n.op = "none" /\ n.step = "none" /\ n.id = Absent /\ n.new = Absent /\ n.quit = Absent
  BY <1>2 DEF NoCall
<1>4. CASE Unmark(k)
  <2>1. PICK c : c = [call[k] EXCEPT !.step = "mark"]
    OBVIOUS
  <2>2. c.step = "mark" /\ c.id = call[k].id /\ c.new = call[k].new /\ c.quit = call[k].quit
    BY <1>1, <2>1 DEF CallType
  <2>3. call' = [call EXCEPT ![k] = c] /\ UNCHANGED <<connections, adapter, loose>>
    BY <1>4, <2>1 DEF Unmark, adapterVars
  <2>4. ~Handles(c) /\ ~Handles(call[k]) /\ Names(k, c) /\ configs \subseteq configs'
    BY <1>4, <2>2 DEF Unmark, Handles, Names
  <2>5. Stays /\ Closes(k)
    BY <2>3 DEF Stays, Closes
  <2> QED
    BY <2>2, <2>3, <2>4, <2>5, QuietPasses
<1>5. CASE Mark(k) \/ MarkFails(k) \/ RemoveFails(k)
  <2>1. /\ call' = [call EXCEPT ![k] = n] /\ UNCHANGED connections
        /\ (adapter' = adapter /\ loose' = loose) \/ Disconnect(call[k].new)
    BY <1>2, <1>5 DEF Mark, MarkFails, RemoveFails, Ends, adapterVars
  <2>2. ~Handles(n) /\ ~Handles(call[k]) /\ Names(k, n) /\ configs \subseteq configs'
    BY <1>3, <1>5 DEF Mark, MarkFails, RemoveFails, Handles, Names
  <2>3. Stays /\ Closes(k) /\ \A a \in Adapters : adapter[a] = "closed" => adapter'[a] = "closed"
    BY <2>1 DEF Stays, Closes, Disconnect, Hands
  <2> QED
    BY <1>3, <2>1, <2>2, <2>3, QuietPasses
<1>6. CASE AddFails(k) \/ ReconnectFails(k)
  <2>1. /\ call' = [call EXCEPT ![k] = n] /\ UNCHANGED connections
        /\ Disconnect(call[k].new) \/ (LetGo(call[k].new) /\ UNCHANGED adapter)
        /\ call[k].step \in {"save", "connect"}
    BY <1>2, <1>6 DEF AddFails, ReconnectFails, Ends
  <2>2. ~Handles(n) /\ Names(k, n) /\ configs \subseteq configs'
    BY <1>3, <1>6 DEF AddFails, ReconnectFails, RestoreConfig, Handles, Names
  <2>3. Stays /\ Closes(k) /\ \A a \in Adapters : adapter[a] = "closed" => adapter'[a] = "closed"
    BY <2>1 DEF Stays, Closes, Disconnect, LetGo, Hands
  <2>4. \A a \in Adapters : a \in Hands(call[k]) => adapter'[a] = "closed" \/ a \in loose'
    BY <1>1, <2>1, RegistryAssumption DEF CallOk, Hands, Disconnect, LetGo, Live
  <2> QED
    BY <1>3, <2>1, <2>2, <2>3, <2>4, QuietPasses
<1>7. CASE RemoveDisconnectFails(k)
  <2>1. /\ call' = [call EXCEPT ![k] = n] /\ UNCHANGED connections
        /\ (adapter' = adapter /\ loose' = loose) \/ Disconnect(call[k].quit)
        /\ call[k].step = "disconnect" /\ call[k].new = Absent /\ call[k].id \in Ids
    BY <1>1, <1>2, <1>7 DEF RemoveDisconnectFails, Ends, CallOk, Ids
  <2>2. ~Handles(n) /\ Names(k, n) /\ configs \subseteq configs'
    BY <1>3, <1>7 DEF RemoveDisconnectFails, Handles, Names
  <2>3. Stays /\ Closes(k) /\ \A a \in Adapters : adapter[a] = "closed" => adapter'[a] = "closed"
    BY <2>1 DEF Stays, Closes, Disconnect, Hands
  <2>4. \A a \in Adapters : a \in Hands(call[k]) =>
          adapter'[a] = "closed" \/ a \in loose' \/ a = connections[call[k].id]
    BY <2>1, RegistryAssumption DEF AdapterInv, Quitting, Quits, SafeIn, Hands, Disconnect
  <2> QED
    BY <1>3, <2>1, <2>2, <2>3, <2>4, QuietPasses
<1>8. CASE RemoveDeletes(k)
  <2>1. /\ UNCHANGED <<connections, adapter, loose, configs, made>> /\ rows' \subseteq rows
        /\ call[k].step = "delete"
    BY <1>8 DEF RemoveDeletes, adapterVars
  <2>2. PICK c : /\ call' = [call EXCEPT ![k] = c] /\ ~Handles(c) /\ c.id \in configs \union {Absent}
                 /\ c.new \in {call[k].new, Absent} /\ c.quit \in {call[k].quit, Absent}
    <3>1. CASE Ends(k)
      BY <1>2, <1>3, <3>1 DEF Ends, Handles
    <3>2. CASE \E next \in configs : SetDefaultBegins(k, [call[k] EXCEPT !.id = next], configs, flagged)
      <4>1. PICK next \in configs : SetDefaultBegins(k, [call[k] EXCEPT !.id = next], configs, flagged)
        BY <3>2
      <4>2. PICK d : d = [call[k] EXCEPT !.id = next]
        OBVIOUS
      <4>3. d \in CallType /\ d.id = next /\ d.new = call[k].new /\ d.quit = call[k].quit
        BY <1>1, <4>2 DEF CallType, RegistryShape
      <4>4. PICK cfgs, flags : cfgs = configs /\ flags = flagged
        OBVIOUS
      <4>5. SetDefaultBegins(k, d, cfgs, flags)
        BY <4>1, <4>2, <4>4
      <4>6. PICK e : /\ call' = [call EXCEPT ![k] = e] /\ e.id = d.id /\ e.new = d.new /\ e.quit = d.quit
                     /\ e.step \in {"unmark", "mark"}
        BY <4>3, <4>5, SetDefaultAwaits
      <4> QED
        BY <4>3, <4>6 DEF Handles
    <3> QED
      BY <1>8, <3>1, <3>2 DEF RemoveDeletes
  <2>3. ~Handles(call[k]) /\ Names(k, c) /\ configs \subseteq configs'
    BY <2>1, <2>2 DEF Handles, Names
  <2>4. Stays /\ Closes(k)
    BY <2>1 DEF Stays, Closes
  <2> QED
    BY <2>1, <2>2, <2>3, <2>4, QuietPasses
<1>9. ASSUME NEW i \in Ids, SetDefault(k, i) PROVE AdapterInv'
  <2>1. /\ UNCHANGED <<connections, adapter, loose, configs, made, rows>> /\ call[k] = n /\ i \in configs
    BY <1>2, <1>9 DEF SetDefault, adapterVars
  <2>2. PICK d : d = [n EXCEPT !.op = "default", !.id = i]
    OBVIOUS
  <2>3. d \in CallType /\ d.id = i /\ d.new = Absent /\ d.quit = Absent
    BY <1>2, <2>2 DEF NoCall, CallType
  <2>4. PICK cfgs, flags : cfgs = configs /\ flags = flagged
    OBVIOUS
  <2>5. SetDefaultBegins(k, d, cfgs, flags)
    BY <1>2, <1>9, <2>2, <2>4 DEF SetDefault
  <2>6. PICK e : /\ call' = [call EXCEPT ![k] = e] /\ e.id = d.id /\ e.new = d.new /\ e.quit = d.quit
                 /\ e.step \in {"unmark", "mark"}
    BY <2>3, <2>5, SetDefaultAwaits
  <2>7. ~Handles(e) /\ ~Handles(call[k]) /\ Names(k, e) /\ configs \subseteq configs'
    BY <1>3, <2>1, <2>3, <2>6 DEF Handles, Names
  <2>8. Stays /\ Closes(k)
    BY <2>1 DEF Stays, Closes
  <2> QED
    BY <2>1, <2>3, <2>6, <2>7, <2>8, QuietPasses
<1> QED
  BY <1>4, <1>5, <1>6, <1>7, <1>8, <1>9

\* addConnection lists its adapter: nobody else knows the connection.
LEMMA AddSavesAdapter ==
  ASSUME RegistryShape, AdapterInv, NEW k \in Callers, AddSaves(k)
  PROVE  AdapterInv'
<1>1. call \in [Callers -> CallType] /\ call[k] \in CallType /\ CallOk(call[k])
  BY DEF RegistryShape, CallsOk
<1>2. PICK i \in Ids : i = call[k].id /\ i \in Links
  BY <1>1 DEF AddSaves, CallOk, Ids
<1>3. PICK v : v = call[k].new
  OBVIOUS
<1>4. /\ call[k].step = "save" /\ connections' = [connections EXCEPT ![i] = v]
      /\ rows' = rows \union {i} /\ configs' = configs \union {i}
      /\ UNCHANGED <<adapter, loose, made>>
  BY <1>2, <1>3 DEF AddSaves
<1>5. PICK c : /\ call' = [call EXCEPT ![k] = c] /\ ~Handles(c) /\ c.id \in {call[k].id, Absent}
               /\ c.new \in {call[k].new, Absent} /\ c.quit \in {call[k].quit, Absent}
  <2>1. CASE Ends(k)
    <3>1. PICK n : n = NoCall
      OBVIOUS
    <3>2. n.step = "none" /\ n.id = Absent /\ n.new = Absent /\ n.quit = Absent
      BY <3>1 DEF NoCall
    <3> QED
      BY <2>1, <3>1, <3>2 DEF Ends, Handles
  <2>2. CASE SetDefaultBegins(k, call[k], configs', flagged \ {call[k].id})
    <3>1. PICK d, cfgs, flags : d = call[k] /\ cfgs = configs' /\ flags = flagged \ {call[k].id}
      OBVIOUS
    <3>2. SetDefaultBegins(k, d, cfgs, flags)
      BY <2>2, <3>1
    <3>3. PICK e : /\ call' = [call EXCEPT ![k] = e] /\ e.id = d.id /\ e.new = d.new /\ e.quit = d.quit
                   /\ e.step \in {"unmark", "mark"}
      BY <1>1, <3>1, <3>2, SetDefaultAwaits
    <3> QED
      BY <3>1, <3>3 DEF Handles
  <2> QED
    BY <2>1, <2>2 DEF AddSaves
<1>6. LetsGo(k, c, i, v)
  BY <1>2, <1>3, <1>4, <1>5 DEF LetsGo, Holder
<1>7. Yields(k, i, v)
  BY <1>2, <1>4 DEF Yields, AdapterInv, Fresh, Handles
<1>8. Stays /\ Closes(k)
  BY <1>4 DEF Stays, Closes
<1>9. Names(k, c)
  BY <1>2, <1>4, <1>5 DEF Names
<1>10. Leaves(k, i, v)
  <2>1. connections[i] = Absent /\ call[k].quit = Absent
    BY <1>1, <1>2, <1>4 DEF AdapterInv, Fresh, CallOk
  <2> QED
    BY <1>3, <1>4, <2>1, RegistryAssumption DEF Leaves, Hands
<1> QED
  BY <1>6, <1>7, <1>8, <1>9, <1>10, PassesKeeps DEF Passes

\* reconnect puts its adapter in the map; removeConnection takes out what it
\* finds there: another call that handles the connection has made all of it loose.
LEMMA SwapAdapter ==
  ASSUME RegistryShape, AdapterInv, NEW k \in Callers, ReconnectSwaps(k) \/ RemoveDisconnects(k)
  PROVE  AdapterInv'
<1>1. call \in [Callers -> CallType] /\ call[k] \in CallType /\ CallOk(call[k])
  BY DEF RegistryShape, CallsOk
<1>2. PICK i \in Ids : i = call[k].id /\ i \in Links
  BY <1>1 DEF ReconnectSwaps, RemoveDisconnects, CallOk, Ids
<1>3. PICK v : v = IF call[k].step = "disconnect" THEN Absent ELSE call[k].new
  OBVIOUS
<1>4. /\ connections' = [connections EXCEPT ![i] = v]
      /\ call[k].step = "disconnect" => configs' = configs \ {i}
      /\ call[k].step # "disconnect" => configs' = configs \union {i}
      /\ call[k].step \in {"connect", "swap", "disconnect"} /\ UNCHANGED <<rows, made>>
  BY <1>2, <1>3 DEF ReconnectSwaps, RemoveDisconnects, Forget, RestoreConfig
<1>5. PICK c : /\ call' = [call EXCEPT ![k] = c] /\ ~Handles(c)
               /\ c.id = Absent \/ (c.id = call[k].id /\ c.step = "delete")
               /\ c.new \in {call[k].new, Absent} /\ c.quit = Absent
  <2>1. CASE ReconnectSwaps(k)
    <3>1. PICK n : n = NoCall
      OBVIOUS
    <3>2. n.step = "none" /\ n.id = Absent /\ n.new = Absent /\ n.quit = Absent
      BY <3>1 DEF NoCall
    <3> QED
      BY <2>1, <3>1, <3>2 DEF ReconnectSwaps, Ends, Handles
  <2>2. CASE RemoveDisconnects(k)
    <3>1. PICK e : e = [call[k] EXCEPT !.step = "delete", !.quit = Absent]
      OBVIOUS
    <3>2. e.step = "delete" /\ e.id = call[k].id /\ e.new = call[k].new /\ e.quit = Absent
      BY <1>1, <3>1 DEF CallType
    <3> QED
      BY <2>2, <3>1, <3>2 DEF RemoveDisconnects, Handles
  <2> QED
    BY <2>1, <2>2
\* What happens to the adapters, by the await the call was in.
<1>6. \/ call[k].step \in {"swap", "disconnect"} /\ Disconnect(call[k].quit)
      \/ call[k].step = "swap" /\ LetGo(call[k].quit) /\ UNCHANGED adapter
      \/ /\ call[k].step = "connect" /\ LetGo(connections[i])
         /\ adapter' = [adapter EXCEPT ![call[k].new] = "open"]
  BY <1>2 DEF ReconnectSwaps, RemoveDisconnects
<1>7. call[k].step = "connect" => adapter[call[k].new] # "closed"
  BY DEF AdapterInv, Connecting
<1>8. \A a \in Adapters : /\ adapter[a] = "closed" => adapter'[a] = "closed"
                          /\ a \in loose => a \in loose' \/ adapter'[a] = "closed"
                          /\ adapter'[a] = "closed" => adapter[a] = "closed" \/ a = call[k].quit
  BY <1>6, <1>7 DEF RegistryShape, Disconnect, LetGo
<1>9. Stays /\ Closes(k)
  BY <1>8 DEF Stays, Closes, Hands
<1>10. LetsGo(k, c, i, v)
  BY <1>2, <1>3, <1>4, <1>5 DEF LetsGo, Holder
<1>11. Yields(k, i, v)
  <2> SUFFICES ASSUME NEW j \in Callers \ {k}, Handles(call[j]), call[j].id = i
               PROVE  SafeIn({v}, adapter', loose') /\ SafeIn({call[j].quit}, adapter', loose')
    BY DEF Yields
  <2>1. SafeIn(Hands(call[j]) \union Hands(call[k]) \union {connections[call[k].id]}, adapter, loose)
    BY <1>2, <1>4 DEF AdapterInv, Raced, Handles
  <2> QED
    BY <1>3, <1>8, <2>1, RegistryAssumption DEF SafeIn, Hands
<1>12. Names(k, c)
  BY <1>2, <1>4, <1>5 DEF Names
<1>13. Leaves(k, i, v)
  <2>1. \A a \in Adapters : a = connections[i] => adapter'[a] = "closed" \/ a \in loose'
    <3>1. CASE call[k].step \in {"swap", "disconnect"}
      <4>1. \/ connections[i] = call[k].quit
            \/ SafeIn({call[k].quit, connections[i]}, adapter, loose)
        BY <1>2, <3>1 DEF AdapterInv, Quitting, Quits
      <4>2. CASE connections[i] = call[k].quit
        BY <1>6, <3>1, <4>2 DEF Disconnect, LetGo, Live
      <4>3. CASE SafeIn({call[k].quit, connections[i]}, adapter, loose)
        BY <1>8, <4>3 DEF SafeIn
      <4> QED
        BY <4>1, <4>2, <4>3
    <3>2. CASE call[k].step = "connect"
      BY <1>6, <1>8, <3>2 DEF LetGo, Live
    <3> QED
      BY <1>4, <3>1, <3>2
  <2>2. \A a \in Adapters : a = call[k].quit => adapter'[a] = "closed" \/ a \in loose'
    <3>1. call[k].step = "connect" => call[k].quit \notin Adapters
      BY <1>1, RegistryAssumption DEF CallOk
    <3> QED
      BY <1>6, <3>1 DEF Disconnect, LetGo, Live
  <2>3. \A a \in Adapters : a = call[k].new => a = v /\ i \in configs'
    <3>1. call[k].step = "disconnect" => call[k].new \notin Adapters
      BY <1>1, RegistryAssumption DEF CallOk
    <3> QED
      BY <1>3, <1>4, <3>1
  <2>4. configs \ {i} \subseteq configs'
    BY <1>4
  <2> QED
    BY <1>8, <2>1, <2>2, <2>3, <2>4 DEF Leaves, Hands
<1> QED
  BY <1>9, <1>10, <1>11, <1>12, <1>13, PassesKeeps DEF Passes

\* removeConnection with nothing to disconnect.
LEMMA RemoveAtOnceAdapter ==
  ASSUME RegistryShape, AdapterInv, NEW k \in Callers, NEW i \in Ids, RemoveAtOnce(k, i)
  PROVE  AdapterInv'
<1>1. call \in [Callers -> CallType]
  BY DEF RegistryShape, CallsOk
<1>2. PICK c : c = [NoCall EXCEPT !.op = "remove", !.step = "delete", !.id = i]
  OBVIOUS
<1>3. c.step = "delete" /\ c.id = i /\ c.new = Absent /\ c.quit = Absent
  BY <1>2 DEF NoCall
<1>4. /\ i \in made \union configs /\ call[k] = NoCall /\ call' = [call EXCEPT ![k] = c]
      /\ configs' = configs \ {i} /\ connections' = [connections EXCEPT ![i] = Absent]
      /\ LetGo(connections[i]) /\ UNCHANGED <<rows, made, adapter>>
  BY <1>2 DEF RemoveAtOnce, Begins, Forget
<1>5. LetsGo(k, c, i, Absent) /\ Names(k, c) /\ ~Handles(call[k])
  BY <1>3, <1>4 DEF LetsGo, Names, Handles, NoCall
<1>6. Stays /\ Closes(k)
  BY <1>4 DEF Stays, Closes, LetGo
<1>7. \A a \in Adapters : a = connections[i] => adapter'[a] = "closed" \/ a \in loose'
  BY <1>4 DEF LetGo, Live
<1>8. Leaves(k, i, Absent)
  BY <1>4, <1>5, <1>7 DEF Leaves
<1>9. Yields(k, i, Absent)
  <2> SUFFICES ASSUME NEW j \in Callers \ {k}, Quits(call[j]), call[j].id = i
               PROVE  SafeIn({call[j].quit}, adapter', loose')
    BY RegistryAssumption DEF Yields, SafeIn
  <2>1. connections[i] = call[j].quit \/ SafeIn({call[j].quit}, adapter, loose)
    BY DEF AdapterInv, Quitting, SafeIn
  <2> QED
    BY <1>4, <1>7, <2>1 DEF SafeIn, LetGo
<1> QED
  BY <1>5, <1>6, <1>8, <1>9, PassesKeeps DEF Passes

-----------------------------------------------------------------------------
\* A call takes an adapter in its hands: a free one, or the one in the map, and
\* makes loose what others handle of the same connection.
Takes(k, c) ==
  /\ call[k] = NoCall /\ call' = [call EXCEPT ![k] = c]
  /\ UNCHANGED <<connections, configs, rows>>
  /\ Handles(c) /\ c.op # "none" /\ c.step # "swap"
  /\ Holder(c) => c.new \in FreeAdapters /\ adapter'[c.new] # "closed"
  /\ ~Holder(c) => c.new = Absent
  /\ c.quit = IF Quits(c) THEN connections[c.id] ELSE Absent
  /\ \A a \in Adapters : a # c.new => adapter'[a] = adapter[a]
  /\ loose \subseteq loose'
  /\ \A j \in Callers \ {k} : Handles(call[j]) /\ call[j].id = c.id =>
       SafeIn(Hands(call[j]) \union Hands(c) \union {connections[c.id]}, adapter', loose')

LEMMA TakesHolds ==
  ASSUME RegistryShape, AdapterInv, NEW k \in Callers, NEW c, c.id \in Ids, Takes(k, c)
  PROVE  /\ Exclusive(call', connections') /\ Connecting(call', adapter')
         /\ Raced(call', connections', adapter', loose')
         /\ Quitting(call', connections', adapter', loose')
         /\ OpenIsListed'
<1>1. call \in [Callers -> CallType] /\ connections \in [Ids -> Adapters \union Sockets \union {Absent}]
  BY DEF RegistryShape, CallsOk
<1>2. call'[k] = c /\ \A j \in Callers \ {k} : call'[j] = call[j]
  BY <1>1 DEF Takes
<1>3. \A j \in Callers : Holder(call[j]) => call[j].new \in Adapters
  BY DEF RegistryShape, CallsOk, CallOk, Holder
<1>4. FreeAdapters \subseteq Adapters /\ \A a \in FreeAdapters : adapter[a] = "closed"
  BY DEF FreeAdapters
<1>5. Stays
  <2>1. \A a \in Adapters \ FreeAdapters : a # c.new
    BY RegistryAssumption DEF Takes
  <2> QED
    BY <2>1 DEF Takes, Stays
<1>6. Exclusive(call', connections')
  <2> SUFFICES ASSUME NEW j \in Callers, Holder(call'[j])
               PROVE  /\ \A h \in Ids : connections'[h] # call'[j].new
                      /\ \A l \in Callers : /\ call'[l].quit # call'[j].new
                                            /\ l # j => call'[l].new # call'[j].new
    BY DEF Exclusive
  <2>1. connections' = connections /\ c.quit \in {Absent, connections[c.id]}
    BY DEF Takes
  <2>2. CASE j = k
    <3>1. c.new \in FreeAdapters /\ c.new \in Adapters
      BY <1>2, <1>4, <2>2 DEF Takes
    <3>2. \A h \in Ids : connections[h] # c.new
      BY <3>1, HeldNotFree
    <3>3. \A l \in Callers \ {k} : call[l].quit # c.new /\ call[l].new # c.new
      BY <3>1, HeldNotFree
    <3>4. c.quit # c.new
      BY <2>1, <3>1, <3>2, RegistryAssumption
    <3> QED
      BY <1>2, <2>1, <2>2, <3>2, <3>3, <3>4
  <2>3. CASE j # k
    <3>1. call'[j] = call[j] /\ Holder(call[j]) /\ call[j].new \in Adapters
      BY <1>2, <1>3, <2>3
    <3>2. /\ \A h \in Ids : connections[h] # call[j].new
          /\ \A l \in Callers : call[l].quit # call[j].new /\ (l # j => call[l].new # call[j].new)
      BY <3>1 DEF AdapterInv, Exclusive
    <3>3. c.quit # call[j].new
      BY <2>1, <3>1, <3>2, RegistryAssumption
    <3>4. c.new # call[j].new
      BY <3>1, HeldNotFree, RegistryAssumption DEF Takes
    <3> QED
      BY <1>2, <2>1, <2>3, <3>1, <3>2, <3>3, <3>4
  <2> QED
    BY <2>2, <2>3
<1>7. Connecting(call', adapter')
  <2> SUFFICES ASSUME NEW j \in Callers, call'[j].step = "connect"
               PROVE  adapter'[call'[j].new] # "closed"
    BY DEF Connecting
  <2>1. CASE j = k
    BY <1>2, <2>1 DEF Takes, Holder
  <2>2. CASE j # k
    <3>1. call'[j] = call[j] /\ call[j].new \in Adapters /\ adapter[call[j].new] # "closed"
      BY <1>2, <1>3, <2>2 DEF AdapterInv, Connecting, Holder
    <3>2. call[j].new # c.new
      BY <3>1, HeldNotFree, RegistryAssumption DEF Takes
    <3> QED
      BY <3>1, <3>2 DEF Takes
  <2> QED
    BY <2>1, <2>2
<1>8. Raced(call', connections', adapter', loose')
  <2> SUFFICES ASSUME NEW j \in Callers, NEW l \in Callers, j # l,
                      Handles(call'[j]), Handles(call'[l]), call'[j].id = call'[l].id
               PROVE  SafeIn(Hands(call'[j]) \union Hands(call'[l]) \union {connections'[call'[l].id]},
                             adapter', loose')
    BY DEF Raced
  <2>1. connections' = connections
    BY DEF Takes
  <2>2. CASE j # k /\ l # k
    <3>1. /\ call'[j] = call[j] /\ call'[l] = call[l]
          /\ Handles(call[j]) /\ Handles(call[l]) /\ call[j].id = call[l].id
      BY <1>2, <2>2
    <3>2. call[l].id \in Ids
      BY <3>1 DEF RegistryShape, CallsOk, CallOk, Handles, Ids
    <3>3. SafeIn(Hands(call[j]) \union Hands(call[l]) \union {connections[call[l].id]}, adapter, loose)
      BY <3>1 DEF AdapterInv, Raced
    <3>4. SafeIn(Hands(call[j]) \union Hands(call[l]) \union {connections[call[l].id]}, adapter', loose')
      BY <1>5, <3>2, <3>3, HeldNotFree DEF SafeIn, Stays, Hands
    <3> QED
      BY <2>1, <3>1, <3>4
  <2>3. CASE j = k
    <3>1. call'[j] = c /\ call'[l] = call[l] /\ Handles(call[l]) /\ call[l].id = c.id
      BY <1>2, <2>3
    <3>2. SafeIn(Hands(call[l]) \union Hands(c) \union {connections[c.id]}, adapter', loose')
      BY <2>3, <3>1 DEF Takes
    <3> QED
      BY <2>1, <3>1, <3>2 DEF SafeIn
  <2>4. CASE l = k
    <3>1. call'[l] = c /\ call'[j] = call[j] /\ Handles(call[j]) /\ call[j].id = c.id
      BY <1>2, <2>4
    <3>2. SafeIn(Hands(call[j]) \union Hands(c) \union {connections[c.id]}, adapter', loose')
      BY <2>4, <3>1 DEF Takes
    <3> QED
      BY <2>1, <3>1, <3>2
  <2> QED
    BY <2>2, <2>3, <2>4
<1>9. Quitting(call', connections', adapter', loose')
  <2> SUFFICES ASSUME NEW j \in Callers, Quits(call'[j])
               PROVE  \/ connections'[call'[j].id] = call'[j].quit
                      \/ SafeIn({call'[j].quit, connections'[call'[j].id]}, adapter', loose')
    BY DEF Quitting
  <2>1. CASE j = k
    BY <1>2, <2>1 DEF Takes
  <2>2. CASE j # k
    <3>1. call'[j] = call[j] /\ Quits(call[j]) /\ call[j].id \in Ids
      BY <1>2, <2>2 DEF RegistryShape, CallsOk, CallOk, Quits, Ids
    <3>2. \/ connections[call[j].id] = call[j].quit
          \/ SafeIn({call[j].quit, connections[call[j].id]}, adapter, loose)
      BY <3>1 DEF AdapterInv, Quitting
    <3>3. \/ connections[call[j].id] = call[j].quit
          \/ SafeIn({call[j].quit, connections[call[j].id]}, adapter', loose')
      BY <1>5, <3>1, <3>2, HeldNotFree DEF SafeIn, Stays
    <3> QED
      BY <3>1, <3>3 DEF Takes
  <2> QED
    BY <2>1, <2>2
<1>10. OpenIsListed'
  <2> SUFFICES ASSUME NEW a \in Adapters, adapter'[a] # "closed", a \notin loose'
               PROVE  \/ \E h \in configs' : connections'[h] = a
                      \/ \E j \in InCall' : Handles(call'[j]) /\ a \in {call'[j].new, call'[j].quit}
    BY DEF OpenIsListed
  <2>1. CASE a = c.new
    BY <1>2, <2>1 DEF Takes, InCall
  <2>2. CASE a # c.new
    <3>1. adapter[a] # "closed" /\ a \notin loose
      BY <2>2 DEF Takes
    <3>2. CASE \E h \in configs : connections[h] = a
      BY <3>2 DEF Takes
    <3>3. CASE \E j \in InCall : Handles(call[j]) /\ a \in {call[j].new, call[j].quit}
      <4>1. PICK j \in InCall : Handles(call[j]) /\ a \in {call[j].new, call[j].quit}
        BY <3>3
      <4>2. j # k
        BY <4>1 DEF Takes, InCall, NoCall
      <4> QED
        BY <1>2, <4>1, <4>2 DEF InCall
    <3> QED
      BY <3>1, <3>2, <3>3 DEF AdapterInv, OpenIsListed
  <2> QED
    BY <2>1, <2>2
<1> QED
  BY <1>6, <1>7, <1>8, <1>9, <1>10

\* addConnection, reconnect and removeConnection begin.
LEMMA TakesSteps ==
  ASSUME RegistryShape, MapsAgree, AdapterInv, NEW k \in Callers, NEW i \in Ids,
         \/ RemoveBegins(k, i) \/ Reconnect(k, i)
         \/ i \in Links /\ \E d \in BOOLEAN : AddConnection(k, i, d)
  PROVE  AdapterInv'
<1>1. call \in [Callers -> CallType]
  BY DEF RegistryShape, CallsOk
<1>2. /\ rows \union {EnvDefault} \subseteq made /\ configs \intersect Links \subseteq made
      /\ \A j \in Callers : call[j].id \in Links => call[j].id \in made
  BY DEF AdapterInv, IdsMade
<1>3. \A j \in Callers : call[j].step = "save" =>
        /\ call[j].id \in Links /\ call[j].id \in Ids
        /\ call[j].id \notin configs /\ connections[call[j].id] = Absent
        /\ \A l \in Callers \ {j} : call[l].id = call[j].id => call[l].step = "delete"
  BY DEF RegistryShape, CallsOk, CallOk, Ids, AdapterInv, Fresh
<1>4. FreeAdapters # {} => NewAdapter \in FreeAdapters /\ NewAdapter \in Adapters
  BY DEF NewAdapter, FreeAdapters
<1>5. CASE RemoveBegins(k, i)
  <2>1. PICK c : c = [NoCall EXCEPT !.op = "remove", !.step = "disconnect", !.id = i, !.quit = connections[i]]
    OBVIOUS
  <2>2. /\ c.op = "remove" /\ c.step = "disconnect" /\ c.id = i /\ c.new = Absent
        /\ c.quit = connections[i]
    BY <2>1 DEF NoCall
  <2>3. /\ call[k] = NoCall /\ call' = [call EXCEPT ![k] = c] /\ i \in Links /\ Connected(i)
        /\ loose' = loose \union Contested(i) /\ UNCHANGED <<connections, configs, rows, adapter, made>>
    BY <1>5, <2>1 DEF RemoveBegins, Begins
  <2>4. connections[i] # Absent
    BY <2>3, RegistryAssumption DEF Connected
  <2>5. \A j \in Callers \ {k} : Handles(call[j]) /\ call[j].id = i =>
           SafeIn(Hands(call[j]) \union Hands(c) \union {connections[i]}, adapter', loose')
    <3> SUFFICES ASSUME NEW j \in Callers \ {k}, Handles(call[j]), call[j].id = i
                 PROVE  SafeIn(Hands(call[j]) \union Hands(c) \union {connections[i]}, adapter', loose')
      OBVIOUS
    <3>1. j \in HandledOf(i)
      BY DEF HandledOf, InCall, RegistryShape, CallsOk, CallOk
    <3>2. Live(Hands(call[j]) \union {connections[i]}) \subseteq Contested(i)
      BY <3>1 DEF Contested, Live, Hands
    <3> QED
      BY <2>2, <2>3, <3>2, RegistryAssumption DEF SafeIn, Hands, Live
  <2>6. Takes(k, c)
    BY <2>2, <2>3, <2>5 DEF Takes, Handles, Holder, Quits
  <2>7. Fresh(call', connections', configs') /\ IdsMade'
    <3>1. call'[k] = c /\ \A j \in Callers \ {k} : call'[j] = call[j]
      BY <1>1, <2>3
    <3>2. IdsMade'
      <4>1. i \in made
        BY <1>2, <2>3, <2>4 DEF MapsAgree
      <4> QED
        BY <1>2, <2>2, <2>3, <3>1, <4>1 DEF IdsMade
    <3>3. Fresh(call', connections', configs')
      BY <1>3, <2>2, <2>3, <2>4, <3>1 DEF Fresh
    <3> QED
      BY <3>2, <3>3
  <2> QED
    BY <2>2, <2>6, <2>7, TakesHolds DEF AdapterInv
<1>6. CASE Reconnect(k, i)
  <2>1. PICK c : c = [NoCall EXCEPT !.op = "reconnect", !.step = "connect", !.id = i,
                                    !.old = IF i \in flagged THEN i ELSE Absent, !.new = NewAdapter]
    OBVIOUS
  <2>2. /\ c.op = "reconnect" /\ c.step = "connect" /\ c.id = i /\ c.new = NewAdapter
        /\ c.quit = Absent
    BY <2>1 DEF NoCall
  <2>3. /\ call[k] = NoCall /\ call' = [call EXCEPT ![k] = c] /\ i \in configs /\ FreeAdapters # {}
        /\ adapter' = [adapter EXCEPT ![NewAdapter] = "lost"]
        /\ loose' = loose \union Contested(i) \union (IF HandledOf(i) = {} THEN {} ELSE {NewAdapter})
        /\ UNCHANGED <<connections, configs, rows, made>>
    BY <1>6, <2>1 DEF Reconnect, Begins
  <2>4. \A a \in Adapters : adapter'[a] = IF a = NewAdapter THEN "lost" ELSE adapter[a]
    BY <1>4, <2>3 DEF RegistryShape
  <2>5. \A j \in Callers \ {k} : Handles(call[j]) /\ call[j].id = i =>
           SafeIn(Hands(call[j]) \union Hands(c) \union {connections[i]}, adapter', loose')
    <3> SUFFICES ASSUME NEW j \in Callers \ {k}, Handles(call[j]), call[j].id = i
                 PROVE  SafeIn(Hands(call[j]) \union Hands(c) \union {connections[i]}, adapter', loose')
      OBVIOUS
    <3>1. j \in HandledOf(i)
      BY DEF HandledOf, InCall, RegistryShape, CallsOk, CallOk
    <3>2. Live(Hands(call[j]) \union {connections[i]}) \subseteq Contested(i) /\ NewAdapter \in loose'
      BY <2>3, <3>1 DEF Contested, Live, Hands
    <3> QED
      BY <2>2, <2>3, <2>4, <3>2, RegistryAssumption DEF SafeIn, Hands, Live
  <2>6. Takes(k, c)
    <3>1. Handles(c) /\ Holder(c) /\ ~Quits(c)
      BY <2>2 DEF Handles, Holder, Quits
    <3>2. loose \subseteq loose'
      BY <2>3
    <3>3. /\ c.new \in FreeAdapters /\ adapter'[c.new] # "closed"
          /\ \A a \in Adapters : a # c.new => adapter'[a] = adapter[a]
      BY <1>4, <2>2, <2>3, <2>4
    <3> QED
      BY <2>2, <2>3, <2>5, <3>1, <3>2, <3>3 DEF Takes
  <2>7. Fresh(call', connections', configs') /\ IdsMade'
    <3>1. call'[k] = c /\ \A j \in Callers \ {k} : call'[j] = call[j]
      BY <1>1, <2>3
    <3>2. IdsMade'
      BY <1>2, <2>2, <2>3, <3>1 DEF IdsMade
    <3>3. Fresh(call', connections', configs')
      BY <1>3, <2>2, <2>3, <3>1 DEF Fresh
    <3> QED
      BY <3>2, <3>3
  <2> QED
    BY <2>2, <2>6, <2>7, TakesHolds DEF AdapterInv
<1>7. ASSUME i \in Links, NEW d \in BOOLEAN, AddConnection(k, i, d) PROVE AdapterInv'
  <2>1. PICK c : c = [NoCall EXCEPT !.op = "add", !.step = "save", !.id = i, !.mark = d, !.new = NewAdapter]
    OBVIOUS
  <2>2. /\ c.op = "add" /\ c.step = "save" /\ c.id = i /\ c.new = NewAdapter
        /\ c.quit = Absent
    BY <2>1 DEF NoCall
  <2>3. /\ call[k] = NoCall /\ call' = [call EXCEPT ![k] = c] /\ i \notin made /\ FreeAdapters # {}
        /\ adapter' = [adapter EXCEPT ![NewAdapter] = "open"]
        /\ made' = made \union {i} /\ UNCHANGED <<connections, configs, rows, loose>>
    BY <1>7, <2>1 DEF AddConnection, Begins
  <2>4. \A a \in Adapters : adapter'[a] = IF a = NewAdapter THEN "open" ELSE adapter[a]
    BY <1>4, <2>3 DEF RegistryShape
  <2>5. \A j \in Callers : call[j].id # i
    BY <1>2, <1>7, <2>3
  <2>6. Takes(k, c)
    BY <1>4, <2>2, <2>3, <2>4, <2>5 DEF Takes, Handles, Holder, Quits
  <2>7. Fresh(call', connections', configs') /\ IdsMade'
    <3>1. call'[k] = c /\ \A j \in Callers \ {k} : call'[j] = call[j]
      BY <1>1, <2>3
    <3>2. IdsMade'
      BY <1>2, <2>2, <2>3, <3>1 DEF IdsMade
    <3>3. i \notin configs /\ connections[i] = Absent
      BY <1>2, <1>7, <2>3 DEF MapsAgree
    <3>4. Fresh(call', connections', configs')
      BY <1>3, <2>2, <2>3, <2>5, <3>1, <3>3 DEF Fresh
    <3> QED
      BY <3>2, <3>4
  <2> QED
    BY <2>2, <2>6, <2>7, TakesHolds DEF AdapterInv
<1> QED
  BY <1>5, <1>6, <1>7

\* reconnect has connected: it takes the adapter it finds in the map as well.
LEMMA ConnectsAdapter ==
  ASSUME RegistryShape, AdapterInv, NEW k \in Callers, ReconnectConnects(k)
  PROVE  AdapterInv'
<1>1. call \in [Callers -> CallType] /\ call[k] \in CallType /\ CallOk(call[k])
  BY DEF RegistryShape, CallsOk
<1>2. PICK i \in Ids : i = call[k].id
  BY <1>1 DEF ReconnectConnects, CallOk
<1>3. PICK c : c = [call[k] EXCEPT !.step = "swap", !.quit = connections[i]]
  OBVIOUS
<1>4. /\ c.op = call[k].op /\ c.step = "swap" /\ c.id = i /\ c.new = call[k].new
      /\ c.quit = connections[i]
  BY <1>1, <1>2, <1>3 DEF CallType
<1>5. /\ call[k].step = "connect" /\ call' = [call EXCEPT ![k] = c]
      /\ adapter' = [adapter EXCEPT ![call[k].new] = "open"]
      /\ UNCHANGED <<rows, configs, connections, loose, made>>
  BY <1>2, <1>3 DEF ReconnectConnects
<1>6. /\ call[k].new \in Adapters /\ adapter[call[k].new] # "closed" /\ Holder(call[k])
      /\ Handles(call[k]) /\ Handles(c) /\ call[k].op # "none"
  BY <1>1, <1>4, <1>5 DEF CallOk, AdapterInv, Connecting, Holder, Handles
<1>7. \A a \in Adapters : adapter'[a] = "closed" <=> adapter[a] = "closed"
  BY <1>5, <1>6 DEF RegistryShape
<1>8. call'[k] = c /\ \A j \in Callers \ {k} : call'[j] = call[j]
  BY <1>1, <1>5
<1>9. IdsMade' /\ Fresh(call', connections', configs')
  BY <1>2, <1>4, <1>5, <1>8 DEF AdapterInv, IdsMade, Fresh
<1>10. Exclusive(call', connections')
  <2> SUFFICES ASSUME NEW j \in Callers, Holder(call'[j])
               PROVE  /\ \A h \in Ids : connections'[h] # call'[j].new
                      /\ \A l \in Callers : /\ call'[l].quit # call'[j].new
                                            /\ l # j => call'[l].new # call'[j].new
    BY DEF Exclusive
  <2>1. Holder(call[j]) /\ call'[j].new = call[j].new
    BY <1>4, <1>6, <1>8
  <2>2. /\ \A h \in Ids : connections[h] # call[j].new
        /\ \A l \in Callers : call[l].quit # call[j].new /\ (l # j => call[l].new # call[j].new)
    BY <2>1 DEF AdapterInv, Exclusive
  <2> QED
    BY <1>2, <1>4, <1>5, <1>8, <2>1, <2>2
<1>11. Connecting(call', adapter')
  <2>1. \A j \in Callers : call[j].step = "connect" => call[j].new \in Adapters
    BY DEF RegistryShape, CallsOk, CallOk
  <2> QED
    BY <1>4, <1>7, <1>8, <2>1 DEF AdapterInv, Connecting
<1>12. Raced(call', connections', adapter', loose')
  <2> SUFFICES ASSUME NEW j \in Callers, NEW l \in Callers, j # l,
                      Handles(call'[j]), Handles(call'[l]), call'[j].id = call'[l].id
               PROVE  SafeIn(Hands(call'[j]) \union Hands(call'[l]) \union {connections'[call'[l].id]},
                             adapter', loose')
    BY DEF Raced
  <2>1. Handles(call[j]) /\ Handles(call[l]) /\ call'[j].id = call[j].id /\ call'[l].id = call[l].id
    BY <1>2, <1>4, <1>6, <1>8
  <2>2. SafeIn(Hands(call[j]) \union Hands(call[l]) \union {connections[call[l].id]}, adapter, loose)
    BY <2>1 DEF AdapterInv, Raced
  <2>3. SafeIn(Hands(call[j]) \union Hands(call[l]) \union {connections[call[l].id]}, adapter', loose')
    BY <1>5, <1>7, <2>2 DEF SafeIn
  <2>4. /\ Hands(call'[j]) \subseteq Hands(call[j]) \union {connections[call[l].id]}
        /\ Hands(call'[l]) \subseteq Hands(call[l]) \union {connections[call[l].id]}
    BY <1>2, <1>4, <1>8, <2>1 DEF Hands
  <2> QED
    BY <1>5, <2>1, <2>3, <2>4 DEF SafeIn
<1>13. Quitting(call', connections', adapter', loose')
  BY <1>4, <1>5, <1>7, <1>8 DEF AdapterInv, Quitting, Quits, SafeIn
<1>14. OpenIsListed'
  <2> SUFFICES ASSUME NEW a \in Adapters, adapter[a] # "closed", a \notin loose
               PROVE  \/ \E h \in configs : connections[h] = a
                      \/ \E j \in InCall' : Handles(call'[j]) /\ a \in {call'[j].new, call'[j].quit}
    BY <1>5, <1>7 DEF OpenIsListed
  <2>1. CASE \E h \in configs : connections[h] = a
    BY <2>1
  <2>2. CASE \E j \in InCall : Handles(call[j]) /\ a \in {call[j].new, call[j].quit}
    <3>1. PICK j \in InCall : Handles(call[j]) /\ a \in {call[j].new, call[j].quit}
      BY <2>2
    <3>2. CASE j = k
      <4>1. a = c.new
        BY <1>1, <1>4, <1>5, <3>1, <3>2, RegistryAssumption DEF CallOk
      <4> QED
        BY <1>4, <1>6, <1>8, <4>1 DEF InCall
    <3>3. CASE j # k
      BY <1>8, <3>1, <3>3 DEF InCall
    <3> QED
      BY <3>2, <3>3
  <2> QED
    BY <2>1, <2>2 DEF AdapterInv, OpenIsListed
<1> QED
  BY <1>9, <1>10, <1>11, <1>12, <1>13, <1>14 DEF AdapterInv

\* Steps aside of the calls: adapters that lose and find their database, refused
\* connections, agents, whose adapters are their sockets.
Aside ==
  /\ UNCHANGED <<call, rows>> /\ made \subseteq made'
  /\ \A i \in Links : (i \in configs <=> i \in configs') /\ connections'[i] = connections[i]
  /\ \A g \in Agents : connections'[g] \notin Adapters
  /\ loose \subseteq loose'
  /\ \A a \in Adapters : adapter'[a] = "closed" => adapter[a] = "closed"
  /\ \A a \in Adapters : adapter[a] = "closed" /\ adapter'[a] # "closed" => a \in FreeAdapters /\ a \in loose'

LEMMA AsideKeeps ==
  ASSUME RegistryShape, AgentLink, AdapterInv, Aside
  PROVE  AdapterInv'
<1>1. \A g \in Agents : connections[g] \notin Adapters
  BY RegistryAssumption DEF AgentLink
<1>2. Stays
  BY DEF Aside, Stays
<1>3. /\ \A k \in Callers : call[k].step = "save" => call[k].id \in Links
      /\ \A k \in Callers : Handles(call[k]) => call[k].id \in Ids
      /\ \A k \in Callers : Quits(call[k]) => call[k].id \in Links
      /\ \A k \in Callers : Holder(call[k]) => call[k].new \in Adapters
  BY DEF RegistryShape, CallsOk, CallOk, Handles, Quits, Holder, Ids
<1>4. IdsMade' /\ Fresh(call', connections', configs')
  BY <1>3 DEF Aside, AdapterInv, IdsMade, Fresh
<1>5. Exclusive(call', connections')
  BY <1>3 DEF Aside, AdapterInv, Exclusive, Ids
<1>6. Connecting(call', adapter')
  BY <1>3 DEF Aside, AdapterInv, Connecting, Holder
<1>7. Raced(call', connections', adapter', loose')
  <2> SUFFICES ASSUME NEW j \in Callers, NEW l \in Callers, j # l,
                      Handles(call[j]), Handles(call[l]), call[j].id = call[l].id
               PROVE  SafeIn(Hands(call[j]) \union Hands(call[l]) \union {connections'[call[l].id]},
                             adapter', loose')
    BY DEF Raced, Aside
  <2>1. SafeIn(Hands(call[j]) \union Hands(call[l]) \union {connections[call[l].id]}, adapter, loose)
    BY DEF AdapterInv, Raced
  <2>2. SafeIn(Hands(call[j]) \union Hands(call[l]) \union {connections[call[l].id]}, adapter', loose')
    BY <1>2, <1>3, <2>1, HeldNotFree DEF SafeIn, Stays, Hands
  <2>3. \/ connections'[call[l].id] = connections[call[l].id]
        \/ connections'[call[l].id] \notin Adapters
    BY <1>3 DEF Aside, Ids
  <2> QED
    BY <2>2, <2>3 DEF SafeIn
<1>8. Quitting(call', connections', adapter', loose')
  <2> SUFFICES ASSUME NEW j \in Callers, Quits(call[j])
               PROVE  \/ connections'[call[j].id] = call[j].quit
                      \/ SafeIn({call[j].quit, connections'[call[j].id]}, adapter', loose')
    BY DEF Quitting, Aside
  <2>1. call[j].id \in Links /\ call[j].id \in Ids /\ connections'[call[j].id] = connections[call[j].id]
    BY <1>3 DEF Aside, Ids
  <2>2. \/ connections[call[j].id] = call[j].quit
        \/ SafeIn({call[j].quit, connections[call[j].id]}, adapter, loose)
    BY DEF AdapterInv, Quitting
  <2>3. \/ connections[call[j].id] = call[j].quit
        \/ SafeIn({call[j].quit, connections[call[j].id]}, adapter', loose')
    BY <1>2, <2>1, <2>2, HeldNotFree DEF SafeIn, Stays
  <2> QED
    BY <2>1, <2>3
<1>9. OpenIsListed'
  <2> SUFFICES ASSUME NEW a \in Adapters, adapter'[a] # "closed", a \notin loose'
               PROVE  \/ \E h \in configs' : connections'[h] = a
                      \/ \E j \in InCall : Handles(call[j]) /\ a \in {call[j].new, call[j].quit}
    BY DEF OpenIsListed, Aside, InCall
  <2>1. adapter[a] # "closed" /\ a \notin loose
    BY DEF Aside
  <2>2. ASSUME NEW h \in configs, connections[h] = a
        PROVE  h \in configs' /\ connections'[h] = a
    BY <1>1, <2>2 DEF RegistryShape, Ids, Aside
  <2> QED
    BY <2>1, <2>2 DEF AdapterInv, OpenIsListed
<1> QED
  BY <1>4, <1>5, <1>6, <1>7, <1>8, <1>9 DEF AdapterInv

LEMMA AsideSteps ==
  ASSUME ConnectionInv, AdapterInv,
         \/ \E a \in Adapters : LinkDrops(a) \/ LinkRecovers(a)
         \/ \E i \in Links : AddRefused(i)
         \/ \E w \in Sockets : \/ RegisterAgent(w) \/ AskToClose(w) \/ SocketCloses(w)
                               \/ \E g \in Agents : OnConnection(w, g)
         \/ UNCHANGED registryVars
  PROVE  AdapterInv'
<1>1. RegistryShape /\ AgentLink
  BY DEF ConnectionInv
<1>2. \A g \in Agents : connections[g] \notin Adapters
  BY RegistryAssumption DEF ConnectionInv, AgentLink
<1>3. CASE \E a \in Adapters : LinkDrops(a) \/ LinkRecovers(a)
  BY <1>1, <1>2, <1>3, AsideKeeps DEF LinkDrops, LinkRecovers, Aside, RegistryShape
<1>4. ASSUME NEW i \in Links, AddRefused(i) PROVE AdapterInv'
  <2>1. NewAdapter \in FreeAdapters /\ NewAdapter \in Adapters
    BY <1>4 DEF AddRefused, NewAdapter, FreeAdapters
  <2> QED
    BY <1>1, <1>2, <1>4, <2>1, AsideKeeps DEF AddRefused, Aside, RegistryShape
<1>5. CASE UNCHANGED registryVars
  BY <1>1, <1>2, <1>5, AsideKeeps DEF registryVars, adapterVars, Aside
<1>6. ASSUME NEW w \in Sockets, RegisterAgent(w) PROVE AdapterInv'
  <2>1. owner[w] \in Agents
    BY <1>6 DEF RegisterAgent, ConnectionInv, GatewayShape
  <2>2. Aside
    BY <1>1, <1>2, <1>6, <2>1, RegistryAssumption DEF RegisterAgent, Aside, RegistryShape, Ids
  <2> QED
    BY <1>1, <2>2, AsideKeeps
<1>7. ASSUME NEW w \in Sockets, SocketCloses(w) PROVE AdapterInv'
  <2>1. owner[w] \in Agents
    BY <1>7 DEF SocketCloses, ConnectionInv, GatewayShape
  <2>2. CASE agents[owner[w]] = Absent
    BY <1>5, <1>7, <2>2 DEF SocketCloses
  <2>3. CASE agents[owner[w]] # Absent
    <3>1. Aside
      BY <1>1, <1>2, <1>7, <2>1, <2>3, RegistryAssumption
      DEF SocketCloses, UnregisterAgent, Forget, Aside, RegistryShape, Ids
    <3> QED
      BY <1>1, <3>1, AsideKeeps
  <2> QED
    BY <2>2, <2>3
<1>8. ASSUME NEW w \in Sockets, AskToClose(w) \/ \E g \in Agents : OnConnection(w, g) PROVE AdapterInv'
  BY <1>5, <1>8 DEF AskToClose, OnConnection
<1> QED
  BY <1>3, <1>4, <1>5, <1>6, <1>7, <1>8

\* With no call in flight the map alone decides.
LEMMA IdleAdapters ==
  ASSUME \A k \in Callers : call[k] = NoCall, IdsMade, OpenIsListed
  PROVE  AdapterInv
<1>1. NoCall.step = "none"
  BY DEF NoCall
<1> QED
  BY <1>1 DEF AdapterInv, Fresh, Exclusive, Connecting, Raced, Quitting, Handles, Holder, Quits

LEMMA AdaptersInductive ==
  ConnectionInv /\ AdapterInv /\ [ConnectionNext]_connectionVars => AdapterInv'
<1> SUFFICES ASSUME ConnectionInv, AdapterInv, [ConnectionNext]_connectionVars
             PROVE  AdapterInv'
  OBVIOUS
<1>1. RegistryShape /\ MapsAgree /\ \A i \in Links \union Agents : i \in Ids
  BY DEF ConnectionInv, Ids
<1>2. ASSUME NEW k \in Callers, RegistryCalls(k) PROVE AdapterInv'
  <2>1. CASE CallStep(k)
    BY <1>1, <2>1, QuietSteps, AddSavesAdapter, SwapAdapter, ConnectsAdapter DEF CallStep
  <2>2. ASSUME NEW i \in Links, RemoveBegins(k, i) \/ \E d \in BOOLEAN : AddConnection(k, i, d)
        PROVE  AdapterInv'
    BY <1>1, <2>2, TakesSteps
  <2>3. ASSUME NEW i \in Links, RemoveAtOnce(k, i) PROVE AdapterInv'
    BY <1>1, <2>3, RemoveAtOnceAdapter
  <2>4. ASSUME NEW i \in Ids, Reconnect(k, i) PROVE AdapterInv'
    BY <1>1, <2>4, TakesSteps
  <2>5. ASSUME NEW i \in Ids, SetDefault(k, i) PROVE AdapterInv'
    BY <1>1, <2>5, QuietSteps
  <2> QED
    BY <1>2, <2>1, <2>2, <2>3, <2>4, <2>5 DEF RegistryCalls
<1>3. CASE RegistryNext(Callers)
  BY <1>2, <1>3, AsideSteps DEF RegistryNext
<1>4. CASE GatewayNext(Callers)
  <2>1. ASSUME NEW k \in Callers, NEW g \in Agents, RemoveAgent(k, g) PROVE AdapterInv'
    BY <1>1, <2>1, RemoveAtOnceAdapter DEF RemoveAgent
  <2> QED
    BY <1>4, <2>1, AsideSteps DEF GatewayNext
<1>5. CASE LinkNext
  BY <1>5, AsideSteps DEF LinkNext
<1>6. CASE PollerNext \/ UNCHANGED connectionVars
  <2>1. UNCHANGED registryVars
    BY <1>6 DEF PollerNext, PollTick, PollTickEnds, PollEnds, connectionVars
  <2> QED
    BY <2>1, AsideSteps
<1>7. CASE RestartAll
  <2>1. /\ RestartAdapters /\ configs' = rows' /\ made' = made
        /\ rows' \subseteq rows \union {EnvDefault}
        /\ call' = [k \in Callers |-> NoCall]
    BY <1>7 DEF RestartAll, GatewayRestart, Restart
  <2>2. PICK f \in [rows' -> Adapters] :
          /\ connections' = [i \in Ids |-> IF i \in rows' THEN f[i] ELSE Absent]
          /\ \A a \in Adapters : adapter'[a] # "closed" => a \in loose' \/ \E i \in rows' : f[i] = a
    BY <2>1, RestartGives
  <2>3. rows' \subseteq Ids
    BY <2>1, RegistryAssumption DEF ConnectionInv, RegistryShape, Ids
  <2>4. OpenIsListed'
    BY <2>1, <2>2, <2>3 DEF OpenIsListed
  <2>5. IdsMade'
    <3>1. NoCall.id = Absent
      BY DEF NoCall
    <3> QED
      BY <2>1, <3>1, RegistryAssumption DEF AdapterInv, IdsMade
  <2>6. \A k \in Callers : call'[k] = NoCall
    BY <2>1
  <2>7. NoCall.step = "none"
    BY DEF NoCall
  <2> QED
    BY <2>4, <2>5, <2>6, <2>7
    DEF AdapterInv, Fresh, Exclusive, Connecting, Raced, Quitting, Handles, Holder, Quits
<1> QED
  BY <1>3, <1>4, <1>5, <1>6, <1>7 DEF ConnectionNext

LEMMA AdaptersInitially == ConnectionInit => AdapterInv
<1> SUFFICES ASSUME ConnectionInit PROVE AdapterInv
  OBVIOUS
<1>1. NoCall.id = Absent /\ EnvDefault \in Ids
  BY RegistryAssumption DEF NoCall, Ids
<1>2. IdsMade
  BY <1>1, RegistryAssumption DEF ConnectionInit, RegistryInit, IdsMade
<1>3. OpenIsListed
  BY <1>1 DEF ConnectionInit, RegistryInit, OpenIsListed
<1> QED
  BY <1>2, <1>3, IdleAdapters DEF ConnectionInit, RegistryInit

\* No adapter is left behind by addConnection, removeConnection, reconnect and
\* loadConnections, however calls, agents, lost databases, failures and restarts
\* interleave: an open one is listed or in a call's hands, unless calls on one
\* connection overlapped, a disconnect failed, or it was let go unconnected.
THEOREM AdaptersKept == ConnectionSpec => []OpenIsListed
<1>1. AdapterInv => OpenIsListed
  BY DEF AdapterInv
<1>2. ConnectionSpec => []AdapterInv
  BY AdaptersInitially, AdaptersInductive, ConnectionInvariant, PTL DEF ConnectionSpec
<1> QED
  BY <1>1, <1>2, PTL

-----------------------------------------------------------------------------
(* The default connection and its marks *)

\* Exactly d is marked in F; agents carry no mark that matters.
Marks(F, d) == \A i \in Links : i \in F <=> i = d

\* With no call that touches the default in flight: cfg are the configs, F and R
\* the marks in memory and in storage, d the default.
Settled(cfg, F, R, d) == d \in cfg \union {Absent} /\ Marks(F, d) /\ Marks(R, d)

\* The one call c that touches the default, by the await it is in.
Turning(c, cfg, F, R, d) ==
  \/ c.step \in {"save", "disconnect"} /\ Settled(cfg, F, R, d)
  \/ /\ c.step = "unmark" /\ c.old = d /\ c.id \in cfg
     /\ Marks(F, Absent) /\ Marks(R, d)
  \/ /\ c.step = "mark" /\ c.id \in cfg
     /\ Marks(F, c.id) /\ \A i \in Links : i \in R => i = c.id
  \/ /\ c.step = "delete" /\ c.id \notin cfg /\ d \in cfg \union {Absent, c.id}
     /\ \A i \in Links : i \in F <=> i = d /\ i # c.id
     /\ Marks(R, d)

\* What each kind of call remembers, whatever runs beside it.
CallForm(c, m) ==
  /\ c.op = "none" => c = NoCall
  /\ c.op # "none" => c.step # "none"
  /\ c.op = "add" => c.id \in m /\ (c.mark \/ c.step = "save")
  /\ c.op = "reconnect" => c.step \in {"connect", "swap"} /\ ~c.mark /\ c.old \in {c.id, Absent}
  /\ c.step = "save" => c.op = "add"
  /\ c.step \in {"connect", "swap"} => c.op = "reconnect"

\* The calls f in flight while nothing has parted the default from its marks.
Calm(f, cfg, F, R, d, rws) ==
  /\ cfg \intersect Links \subseteq rws
  /\ \A k \in Callers : TouchesDefault(f[k]) =>
       /\ Turning(f[k], cfg, F, R, d)
       /\ \A j \in Callers \ {k} : f[j] = NoCall
  /\ (\A k \in Callers : ~TouchesDefault(f[k])) => Settled(cfg, F, R, d)
  /\ \A k \in Callers : f[k].op = "reconnect" /\ f[k].id \in Links =>
       f[k].id \in cfg /\ (f[k].old = f[k].id <=> f[k].id \in F)
  /\ \A k \in Callers : f[k].step = "save" =>
       f[k].id \notin cfg /\ \A j \in Callers \ {k} : f[j].id # f[k].id

MarksInv ==
  /\ rowFlag \subseteq rows /\ IsFiniteSet(rowFlag)
  /\ rows \union {EnvDefault} \subseteq made
  /\ \A k \in Callers : CallForm(call[k], made)
  /\ ~parted => Calm(call, configs, flagged, rowFlag, defaultId, rows)

\* A caller that is not calling.
LEMMA NoCallQuiet ==
  /\ NoCall \in CallType /\ NoCall.op = "none" /\ NoCall.step = "none" /\ NoCall.id = Absent
  /\ ~TouchesDefault(NoCall) /\ \A m : CallForm(NoCall, m)
  BY DEF NoCall, CallType, TouchesDefault, CallForm

\* Nobody is calling.
LEMMA IdleCalm ==
  ASSUME NEW f, \A k \in Callers : f[k] = NoCall, NEW cfg, NEW F, NEW R, NEW d, NEW rws,
         cfg \intersect Links \subseteq rws, Settled(cfg, F, R, d)
  PROVE  Calm(f, cfg, F, R, d, rws)
  BY NoCallQuiet DEF Calm

\* One caller, whose call c is over or is the one that touches the default.
AloneOk(c, cfg, F, R, d) ==
  \/ c = NoCall /\ Settled(cfg, F, R, d)
  \/ /\ TouchesDefault(c) /\ Turning(c, cfg, F, R, d)
     /\ c.op # "reconnect" /\ (c.step = "save" => c.id \notin cfg /\ c.id \in Links)

\* With one caller, the default and its marks are where its call puts them.
LEMMA AloneCalm ==
  ASSUME NEW f \in [Callers -> CallType], NEW k \in Callers, NEW c \in CallType,
         \A j \in Callers \ {k} : f[j] = NoCall,
         NEW g, g = [f EXCEPT ![k] = c],
         NEW cfg, NEW F, NEW R, NEW d, NEW rws,
         cfg \intersect Links \subseteq rws, AloneOk(c, cfg, F, R, d)
  PROVE  Calm(g, cfg, F, R, d, rws)
<1>1. g[k] = c /\ \A j \in Callers \ {k} : g[j] = NoCall
  OBVIOUS
<1>2. CASE c = NoCall /\ Settled(cfg, F, R, d)
  <2>1. \A j \in Callers : g[j] = NoCall
    BY <1>1, <1>2
  <2>2. QED
    BY <1>2, <2>1, IdleCalm
<1>3. CASE /\ TouchesDefault(c) /\ Turning(c, cfg, F, R, d) /\ c.op # "reconnect"
           /\ c.step = "save" => c.id \notin cfg /\ c.id \in Links
  BY <1>1, <1>3, NoCallQuiet, RegistryAssumption DEF Calm
<1>4. QED
  BY <1>2, <1>3 DEF AloneOk

\* Several callers, none of which touches the default: the marks stay where they
\* are while caller k goes on to c.
QuietOk(f, k, c, cfg, F) ==
  /\ ~TouchesDefault(c)
  /\ c.op = "reconnect" /\ c.id \in Links => c.id \in cfg /\ (c.old = c.id <=> c.id \in F)
  /\ c.step = "save" => c.id \notin cfg /\ \A j \in Callers \ {k} : f[j].id # c.id
  /\ \A j \in Callers \ {k} : f[j].step = "save" => f[j].id \notin cfg /\ f[j].id # c.id

\* With several callers, none of which moves the default.
LEMMA QuietCalm ==
  ASSUME NEW f \in [Callers -> CallType], NEW k \in Callers, NEW c \in CallType,
         \A j \in Callers : ~TouchesDefault(f[j]),
         NEW g, g = [f EXCEPT ![k] = c],
         NEW cfg, NEW F, NEW R, NEW d, NEW rws, Calm(f, cfg, F, R, d, rws),
         NEW cfg2, NEW F2, NEW rws2, cfg \subseteq cfg2, cfg2 \intersect Links \subseteq rws2,
         \A i \in Links : i \in F <=> i \in F2, QuietOk(f, k, c, cfg2, F2)
  PROVE  Calm(g, cfg2, F2, R, d, rws2)
<1>1. g[k] = c /\ \A j \in Callers \ {k} : g[j] = f[j]
  OBVIOUS
<1>2. Settled(cfg2, F2, R, d)
  BY DEF Calm, Settled, Marks
<1>3. \A j \in Callers : ~TouchesDefault(g[j])
  BY <1>1 DEF QuietOk
<1>4. ASSUME NEW j \in Callers, g[j].op = "reconnect", g[j].id \in Links
      PROVE  g[j].id \in cfg2 /\ (g[j].old = g[j].id <=> g[j].id \in F2)
  <2>1. CASE j = k
    BY <1>1, <1>4, <2>1 DEF QuietOk
  <2>2. CASE j # k
    BY <1>1, <1>4, <2>2 DEF Calm
  <2>3. QED
    BY <2>1, <2>2
<1>5. ASSUME NEW j \in Callers, g[j].step = "save"
      PROVE  g[j].id \notin cfg2 /\ \A i \in Callers \ {j} : g[i].id # g[j].id
  <2>1. CASE j = k
    BY <1>1, <1>5, <2>1 DEF QuietOk
  <2>2. CASE j # k
    BY <1>1, <1>5, <2>2 DEF Calm, QuietOk
  <2>3. QED
    BY <2>1, <2>2
<1>6. QED
  BY <1>2, <1>3, <1>4, <1>5 DEF Calm

\* The calls keep their form.
LEMMA FormUpdated ==
  ASSUME MarksInv, call \in [Callers -> CallType], NEW k \in Callers, NEW c,
         call' = [call EXCEPT ![k] = c], made \subseteq made', CallForm(c, made')
  PROVE  \A j \in Callers : CallForm(call'[j], made')
<1> SUFFICES ASSUME NEW j \in Callers PROVE CallForm(call'[j], made')
  OBVIOUS
<1>1. CASE j = k
  BY <1>1
<1>2. CASE j # k
  <2>1. call'[j] = call[j] /\ CallForm(call[j], made)
    BY <1>2 DEF MarksInv
  <2>2. QED
    BY <2>1 DEF CallForm
<1>3. QED
  BY <1>1, <1>2

\* A call that touches the default begins beside no other, or parts it.
LEMMA BeginsAlone ==
  ASSUME MarksInv, ~parted, NEW k \in Callers, call[k] = NoCall, NEW c, TouchesDefault(c),
         ~Overlaps(k, c)
  PROVE  /\ \A j \in Callers \ {k} : call[j] = NoCall
         /\ configs \intersect Links \subseteq rows
         /\ Settled(configs, flagged, rowFlag, defaultId)
<1>1. \A j \in Callers \ {k} : call[j] = NoCall
  BY DEF Overlaps, InCall, MarksInv, CallForm
<1>2. \A j \in Callers : ~TouchesDefault(call[j])
  BY <1>1, NoCallQuiet
<1>3. QED
  BY <1>1, <1>2 DEF MarksInv, Calm

\* Another call begins beside calls like it, or parts the default from its marks.
LEMMA BeginsQuiet ==
  ASSUME MarksInv, NEW k \in Callers, call[k] = NoCall, NEW c, ~Overlaps(k, c)
  PROVE  \A j \in Callers : ~TouchesDefault(call[j])
<1> SUFFICES ASSUME NEW j \in Callers PROVE ~TouchesDefault(call[j])
  OBVIOUS
<1>1. CASE call[j].op = "none"
  <2>1. call[j] = NoCall
    BY <1>1 DEF MarksInv, CallForm
  <2>2. QED
    BY <2>1, NoCallQuiet
<1>2. CASE call[j].op # "none"
  <2>1. j # k
    BY <1>2, NoCallQuiet
  <2>2. QED
    BY <1>2, <2>1 DEF Overlaps, InCall
<1>3. QED
  BY <1>1, <1>2

\* A call in flight that touches the default is alone; one that does not sees
\* the default settled.
LEMMA InFlight ==
  ASSUME MarksInv, ~parted, NEW k \in Callers, call[k].step # "none"
  PROVE  /\ configs \intersect Links \subseteq rows
         /\ TouchesDefault(call[k]) => /\ \A j \in Callers \ {k} : call[j] = NoCall
                                       /\ Turning(call[k], configs, flagged, rowFlag, defaultId)
         /\ ~TouchesDefault(call[k]) => /\ \A j \in Callers : ~TouchesDefault(call[j])
                                        /\ Settled(configs, flagged, rowFlag, defaultId)
<1>1. call[k] # NoCall
  BY NoCallQuiet
<1>2. QED
  BY <1>1 DEF MarksInv, Calm

\* setDefault up to its first await.
LEMMA DefaultTurns ==
  ASSUME call \in [Callers -> CallType], NEW k \in Callers, NEW c \in CallType, TouchesDefault(c),
         c.op \in {"default", "add", "remove"}, NEW cfgs \in SUBSET Ids, NEW flags, NEW R,
         c.id \in cfgs,
         \/ Settled(cfgs, flags, R, defaultId)
         \/ defaultId \notin cfgs /\ Marks(flags, Absent) /\ Marks(R, Absent),
         SetDefaultBegins(k, c, cfgs, flags)
  PROVE  \E e \in CallType :
           /\ call' = [call EXCEPT ![k] = e] /\ e.id = c.id /\ e.op = c.op /\ e.mark = c.mark
           /\ e.step \in {"unmark", "mark"}
           /\ TouchesDefault(e) /\ Turning(e, cfgs, flagged', R, defaultId)
<1>1. CASE defaultId \notin {Absent, c.id} /\ defaultId \in cfgs
  <2>1. PICK e : e = [c EXCEPT !.step = "unmark", !.old = defaultId]
    OBVIOUS
  <2>2. /\ e \in CallType /\ e.id = c.id /\ e.op = c.op /\ e.mark = c.mark /\ e.step = "unmark"
        /\ e.old = defaultId
    BY <1>1, <2>1 DEF CallType
  <2>3. call' = [call EXCEPT ![k] = e] /\ flagged' = flags \ {defaultId}
    BY <1>1, <2>1 DEF SetDefaultBegins
  <2>4. Settled(cfgs, flags, R, defaultId)
    BY <1>1
  <2>5. Marks(flagged', Absent) /\ Marks(R, defaultId)
    BY <2>3, <2>4, RegistryAssumption DEF Settled, Marks
  <2>6. Turning(e, cfgs, flagged', R, defaultId)
    BY <2>2, <2>5 DEF Turning
  <2>7. TouchesDefault(e)
    BY <2>2 DEF TouchesDefault
  <2>8. QED
    BY <2>2, <2>3, <2>6, <2>7
<1>2. CASE ~(defaultId \notin {Absent, c.id} /\ defaultId \in cfgs)
  <2>1. PICK e : e = [c EXCEPT !.step = "mark"]
    OBVIOUS
  <2>2. e \in CallType /\ e.id = c.id /\ e.op = c.op /\ e.mark = c.mark /\ e.step = "mark"
    BY <2>1 DEF CallType
  <2>3. call' = [call EXCEPT ![k] = e] /\ flagged' = flags \union {c.id}
    BY <1>2, <2>1 DEF SetDefaultBegins
  <2>4. Marks(flagged', c.id) /\ \A i \in Links : i \in R => i = c.id
    BY <1>2, <2>3, RegistryAssumption DEF Settled, Marks
  <2>5. Turning(e, cfgs, flagged', R, defaultId)
    BY <2>2, <2>4 DEF Turning
  <2>6. TouchesDefault(e)
    BY <2>2 DEF TouchesDefault
  <2>7. QED
    BY <2>2, <2>3, <2>5, <2>6
<1>3. QED
  BY <1>1, <1>2

-----------------------------------------------------------------------------
(* The steps of the calls, and the marks *)

\* A step of caller k's call, to c; the rows and their marks are given apart.
LEMMA MarksMove ==
  ASSUME ConnectionInv, MarksInv, NEW k \in Callers, NEW c, call' = [call EXCEPT ![k] = c],
         made' = made, CallForm(c, made),
         rowFlag' \subseteq rows', IsFiniteSet(rowFlag'), rows' \subseteq made,
         ~parted' => Calm(call', configs', flagged', rowFlag', defaultId', rows')
  PROVE  MarksInv'
<1>1. call \in [Callers -> CallType]
  BY DEF ConnectionInv, RegistryShape, CallsOk
<1>2. \A j \in Callers : CallForm(call'[j], made')
  BY <1>1, FormUpdated
<1>3. QED
  BY <1>2 DEF MarksInv

\* What is known of a call in flight.
LEMMA OneCall ==
  ASSUME ConnectionInv, MarksInv, NEW k \in Callers
  PROVE  /\ call \in [Callers -> CallType] /\ call[k] \in CallType /\ CallOk(call[k])
         /\ CallForm(call[k], made)
  BY DEF ConnectionInv, RegistryShape, CallsOk, MarksInv

\* setDefault's first write: from no mark to the new one's.
LEMMA UnmarkMarks ==
  ASSUME ConnectionInv, MarksInv, NEW k \in Callers, Unmark(k)
  PROVE  MarksInv'
<1>1. PICK r \in CallType : r = call[k] /\ CallForm(r, made) /\ r.step = "unmark"
  BY OneCall DEF Unmark
<1>2. PICK c : c = [r EXCEPT !.step = "mark"]
  OBVIOUS
<1>3. /\ c \in CallType /\ c.op = r.op /\ c.id = r.id /\ c.mark = r.mark /\ c.old = r.old
      /\ c.step = "mark"
  BY <1>2 DEF CallType
<1>4. /\ call' = [call EXCEPT ![k] = c] /\ rowFlag' = rowFlag \ {r.old}
      /\ configs' = configs \union {r.id} /\ flagged' = flagged \union {r.id}
      /\ UNCHANGED <<rows, defaultId, made, parted>>
  BY <1>1, <1>2 DEF Unmark
<1>5. CallForm(c, made)
  BY <1>1, <1>3, NoCallQuiet DEF CallForm
<1>6. rowFlag' \subseteq rows' /\ IsFiniteSet(rowFlag') /\ rows' \subseteq made
  <2>1. IsFiniteSet(rowFlag')
    BY <1>4, FS_Subset DEF MarksInv
  <2>2. QED
    BY <1>4, <2>1 DEF MarksInv
<1>7. ASSUME ~parted'
      PROVE  Calm(call', configs', flagged', rowFlag', defaultId', rows')
  <2>1. r.op \in {"default", "add", "remove"} /\ TouchesDefault(r) /\ TouchesDefault(c)
    BY <1>1, <1>3, NoCallQuiet DEF TouchesDefault, CallForm, CallType
  <2>2. /\ configs \intersect Links \subseteq rows /\ \A j \in Callers \ {k} : call[j] = NoCall
        /\ Turning(r, configs, flagged, rowFlag, defaultId)
    BY <1>1, <1>4, <1>7, <2>1, InFlight
  <2>3. r.old = defaultId /\ r.id \in configs /\ Marks(flagged, Absent) /\ Marks(rowFlag, defaultId)
    BY <1>1, <2>2 DEF Turning
  <2>4. configs' = configs /\ Marks(flagged', c.id) /\ \A i \in Links : i \in rowFlag' => i = c.id
    BY <1>3, <1>4, <2>3, RegistryAssumption DEF Marks
  <2>5. Turning(c, configs', flagged', rowFlag', defaultId')
    BY <1>3, <2>3, <2>4 DEF Turning
  <2>6. AloneOk(c, configs', flagged', rowFlag', defaultId')
    BY <1>3, <2>1, <2>5 DEF AloneOk
  <2>7. call \in [Callers -> CallType] /\ configs' \intersect Links \subseteq rows'
    BY <1>4, <2>2, <2>4, OneCall
  <2>8. QED
    BY <1>3, <1>4, <2>2, <2>6, <2>7, AloneCalm
<1>8. QED
  BY <1>4, <1>5, <1>6, <1>7, MarksMove

\* setDefault's last write: the default is the one marked.
LEMMA MarkMarks ==
  ASSUME ConnectionInv, MarksInv, NEW k \in Callers, Mark(k)
  PROVE  MarksInv'
<1>1. PICK r \in CallType : r = call[k] /\ CallForm(r, made) /\ r.step = "mark"
  BY OneCall DEF Mark
<1>2. /\ call' = [call EXCEPT ![k] = NoCall] /\ rowFlag' = rowFlag \union (rows \intersect {r.id})
      /\ defaultId' = r.id /\ UNCHANGED <<rows, configs, flagged, made, parted>>
  BY <1>1 DEF Mark, Ends
<1>3. rowFlag' \subseteq rows' /\ IsFiniteSet(rowFlag') /\ rows' \subseteq made
  <2>1. IsFiniteSet({r.id}) /\ rows \intersect {r.id} \in SUBSET {r.id}
    BY FS_Singleton
  <2>2. IsFiniteSet(rows \intersect {r.id}) /\ IsFiniteSet(rowFlag)
    BY <2>1, FS_Subset DEF MarksInv
  <2>3. IsFiniteSet(rowFlag')
    BY <1>2, <2>2, FS_Union
  <2>4. QED
    BY <1>2, <2>3 DEF MarksInv
<1>4. ASSUME ~parted'
      PROVE  Calm(call', configs', flagged', rowFlag', defaultId', rows')
  <2>1. TouchesDefault(r)
    BY <1>1, NoCallQuiet DEF TouchesDefault, CallForm, CallType
  <2>2. /\ configs \intersect Links \subseteq rows /\ \A j \in Callers \ {k} : call[j] = NoCall
        /\ Turning(r, configs, flagged, rowFlag, defaultId)
    BY <1>1, <1>2, <1>4, <2>1, InFlight
  <2>3. r.id \in configs /\ Marks(flagged, r.id) /\ \A i \in Links : i \in rowFlag => i = r.id
    BY <1>1, <2>2 DEF Turning
  <2>4. Settled(configs', flagged', rowFlag', defaultId')
    BY <1>2, <2>2, <2>3 DEF Settled, Marks
  <2>5. AloneOk(NoCall, configs', flagged', rowFlag', defaultId')
    BY <2>4 DEF AloneOk
  <2>6. call \in [Callers -> CallType] /\ configs' \intersect Links \subseteq rows'
    BY <1>2, <2>2, OneCall
  <2>7. QED
    BY <1>2, <2>2, <2>5, <2>6, NoCallQuiet, AloneCalm
<1>5. QED
  BY <1>2, <1>3, <1>4, NoCallQuiet, MarksMove

\* A write fails: the call ends, and the marks may be parted from the default.
LEMMA FailureMarks ==
  ASSUME ConnectionInv, MarksInv, NEW k \in Callers, MarkFails(k) \/ RemoveFails(k)
  PROVE  MarksInv'
<1>1. call' = [call EXCEPT ![k] = NoCall] /\ parted' /\ UNCHANGED <<rows, rowFlag, made>>
  BY DEF MarkFails, RemoveFails, Ends
<1>2. rowFlag' \subseteq rows' /\ IsFiniteSet(rowFlag') /\ rows' \subseteq made
  BY <1>1 DEF MarksInv
<1>3. QED
  BY <1>1, <1>2, NoCallQuiet, MarksMove

\* addConnection after the connect: the new id was nowhere, so no mark moves
\* unless it is to be the default.
LEMMA AddSavesMarks ==
  ASSUME ConnectionInv, MarksInv, NEW k \in Callers, AddSaves(k)
  PROVE  MarksInv'
<1>1. PICK r \in CallType : r = call[k] /\ CallForm(r, made) /\ r.step = "save" /\ r.id \in Links
  BY OneCall DEF AddSaves, CallOk
<1>2. /\ rows' = rows \union {r.id} /\ configs' = configs \union {r.id}
      /\ UNCHANGED <<rowFlag, defaultId, made, parted>>
  BY <1>1 DEF AddSaves
<1>3. r.op = "add" /\ r.id \in made
  BY <1>1 DEF CallForm
<1>4. rowFlag' \subseteq rows' /\ IsFiniteSet(rowFlag') /\ rows' \subseteq made
  BY <1>2, <1>3 DEF MarksInv
<1>5. ASSUME ~parted
      PROVE  /\ configs \intersect Links \subseteq rows /\ configs' \intersect Links \subseteq rows'
             /\ Settled(configs, flagged, rowFlag, defaultId)
             /\ r.id \notin configs /\ r.id # defaultId /\ r.id \notin flagged
             /\ \A j \in Callers \ {k} : call[j].id # r.id
  <2>1. configs \intersect Links \subseteq rows /\ Settled(configs, flagged, rowFlag, defaultId)
    BY <1>1, <1>5, InFlight DEF Turning
  <2>2. r.id \notin configs /\ \A j \in Callers \ {k} : call[j].id # r.id
    BY <1>1, <1>5 DEF MarksInv, Calm
  <2>3. r.id # defaultId /\ r.id \notin flagged
    BY <1>1, <2>1, <2>2, RegistryAssumption DEF Settled, Marks
  <2>4. QED
    BY <1>2, <2>1, <2>2, <2>3
<1>6. CASE r.mark
  <2>1. PICK cfgs \in SUBSET Ids : cfgs = configs'
    BY <1>1, <1>2 DEF ConnectionInv, RegistryShape, Ids
  <2>2. PICK flags : flags = flagged \ {r.id}
    OBVIOUS
  <2>3. SetDefaultBegins(k, r, cfgs, flags)
    BY <1>1, <1>6, <2>1, <2>2 DEF AddSaves
  <2>4. PICK e : /\ call' = [call EXCEPT ![k] = e] /\ e.id = r.id /\ e.op = r.op /\ e.mark = r.mark
                 /\ e.step \in {"unmark", "mark"}
    BY <2>3, SetDefaultAwaits
  <2>5. CallForm(e, made)
    BY <1>1, <1>3, <1>6, <2>4 DEF CallForm
  <2>6. ASSUME ~parted'
        PROVE  Calm(call', configs', flagged', rowFlag', defaultId', rows')
    <3>1. ~parted /\ TouchesDefault(r) /\ call \in [Callers -> CallType]
      BY <1>2, <1>6, <2>6, OneCall DEF TouchesDefault
    <3>2. \A j \in Callers \ {k} : call[j] = NoCall
      BY <1>1, <3>1, InFlight
    <3>3. Settled(cfgs, flags, rowFlag, defaultId)
      BY <1>2, <1>5, <2>1, <2>2, <3>1 DEF Settled, Marks
    <3>4. r.id \in cfgs
      BY <1>2, <2>1
    <3>5. PICK c \in CallType :
             /\ call' = [call EXCEPT ![k] = c] /\ c.id = r.id /\ c.op = r.op /\ c.mark = r.mark
             /\ c.step \in {"unmark", "mark"}
             /\ TouchesDefault(c) /\ Turning(c, cfgs, flagged', rowFlag, defaultId)
      BY <1>3, <2>3, <3>1, <3>3, <3>4, DefaultTurns
    <3>6. AloneOk(c, cfgs, flagged', rowFlag, defaultId)
      BY <1>3, <3>5 DEF AloneOk
    <3>7. cfgs \intersect Links \subseteq rows'
      BY <1>5, <2>1, <3>1
    <3>8. Calm(call', cfgs, flagged', rowFlag, defaultId, rows')
      BY <3>1, <3>2, <3>5, <3>6, <3>7, AloneCalm
    <3>9. QED
      BY <1>2, <2>1, <3>8
  <2>7. QED
    BY <1>2, <1>4, <2>4, <2>5, <2>6, MarksMove
<1>7. CASE ~r.mark
  <2>1. call' = [call EXCEPT ![k] = NoCall] /\ flagged' = flagged \ {r.id}
    BY <1>1, <1>7 DEF AddSaves, Ends
  <2>2. ASSUME ~parted'
        PROVE  Calm(call', configs', flagged', rowFlag', defaultId', rows')
    <3>1. ~parted /\ ~TouchesDefault(r) /\ call \in [Callers -> CallType]
      BY <1>2, <1>3, <1>7, <2>2, OneCall DEF TouchesDefault
    <3>2. \A j \in Callers : ~TouchesDefault(call[j])
      BY <1>1, <3>1, InFlight
    <3>3. Calm(call, configs, flagged, rowFlag, defaultId, rows)
      BY <3>1 DEF MarksInv
    <3>4. \A i \in Links : i \in flagged <=> i \in flagged'
      BY <1>5, <2>1, <3>1
    <3>5. QuietOk(call, k, NoCall, configs', flagged')
      <4>1. \A j \in Callers \ {k} : call[j].step = "save" =>
               call[j].id \notin configs' /\ call[j].id \in Links
        <5>1. \A j \in Callers : call[j].step = "save" => call[j].id \in Links
          BY DEF ConnectionInv, RegistryShape, CallsOk, CallOk
        <5>2. QED
          BY <1>2, <1>5, <3>1, <3>3, <5>1 DEF Calm
      <4>2. QED
        BY <4>1, NoCallQuiet, RegistryAssumption DEF QuietOk
    <3>6. configs \subseteq configs' /\ configs' \intersect Links \subseteq rows'
      BY <1>2, <1>5, <3>1
    <3>7. Calm(call', configs', flagged', rowFlag, defaultId, rows')
      BY <2>1, <3>1, <3>2, <3>3, <3>4, <3>5, <3>6, NoCallQuiet, QuietCalm
    <3>8. QED
      BY <1>2, <3>7
  <2>3. QED
    BY <1>2, <1>4, <2>1, <2>2, NoCallQuiet, MarksMove
<1>8. QED
  BY <1>6, <1>7

\* addConnection fails before anything is listed, or removeConnection before
\* anything is removed.
LEMMA GivesUpMarks ==
  ASSUME ConnectionInv, MarksInv, NEW k \in Callers, AddFails(k) \/ RemoveDisconnectFails(k)
  PROVE  MarksInv'
<1>1. PICK r \in CallType : r = call[k] /\ CallForm(r, made) /\ r.step \in {"save", "disconnect"}
  BY OneCall DEF AddFails, RemoveDisconnectFails
<1>2. /\ call' = [call EXCEPT ![k] = NoCall]
      /\ UNCHANGED <<rows, rowFlag, configs, flagged, defaultId, made, parted>>
  BY DEF AddFails, RemoveDisconnectFails, Ends
<1>3. rowFlag' \subseteq rows' /\ IsFiniteSet(rowFlag') /\ rows' \subseteq made
  BY <1>2 DEF MarksInv
<1>4. ASSUME ~parted'
      PROVE  Calm(call', configs', flagged', rowFlag', defaultId', rows')
  <2>1. /\ ~parted /\ call \in [Callers -> CallType]
        /\ Calm(call, configs, flagged, rowFlag, defaultId, rows)
    BY <1>2, <1>4, OneCall DEF MarksInv
  <2>2. CASE TouchesDefault(r)
    <3>1. /\ \A j \in Callers \ {k} : call[j] = NoCall
          /\ configs \intersect Links \subseteq rows
          /\ Turning(r, configs, flagged, rowFlag, defaultId)
      BY <1>1, <2>1, <2>2, InFlight
    <3>2. AloneOk(NoCall, configs, flagged, rowFlag, defaultId)
      BY <1>1, <3>1 DEF AloneOk, Turning
    <3>3. Calm(call', configs, flagged, rowFlag, defaultId, rows)
      BY <1>2, <2>1, <3>1, <3>2, NoCallQuiet, AloneCalm
    <3>4. QED
      BY <1>2, <3>3
  <2>3. CASE ~TouchesDefault(r)
    <3>1. \A j \in Callers : ~TouchesDefault(call[j])
      BY <1>1, <2>1, <2>3, InFlight
    <3>2. QuietOk(call, k, NoCall, configs, flagged)
      <4>1. \A j \in Callers : call[j].step = "save" => call[j].id \in Links
        BY DEF ConnectionInv, RegistryShape, CallsOk, CallOk
      <4>2. QED
        BY <2>1, <4>1, NoCallQuiet, RegistryAssumption DEF Calm, QuietOk
    <3>3. configs \intersect Links \subseteq rows
      BY <2>1 DEF Calm
    <3>4. Calm(call', configs, flagged, rowFlag, defaultId, rows)
      BY <1>2, <2>1, <3>1, <3>2, <3>3, NoCallQuiet, QuietCalm
    <3>5. QED
      BY <1>2, <3>4
  <2>4. QED
    BY <2>2, <2>3
<1>5. QED
  BY <1>2, <1>3, <1>4, NoCallQuiet, MarksMove

\* The maps forget a connection, and its removal waits for the row's.
LEMMA ForgetTurns ==
  ASSUME Settled(configs, flagged, rowFlag, defaultId), configs \intersect Links \subseteq rows,
         NEW c \in CallType, c.step = "delete", c.op = "remove", Forget(c.id),
         UNCHANGED <<rows, rowFlag, defaultId>>
  PROVE  /\ AloneOk(c, configs', flagged', rowFlag', defaultId')
         /\ configs' \intersect Links \subseteq rows'
<1>1. configs' = configs \ {c.id} /\ flagged' = flagged \ {c.id}
  BY DEF Forget
<1>2. Turning(c, configs', flagged', rowFlag', defaultId')
  BY <1>1 DEF Turning, Settled, Marks
<1>3. QED
  BY <1>1, <1>2 DEF AloneOk, TouchesDefault

\* removeConnection after the disconnect.
LEMMA RemoveDisconnectsMarks ==
  ASSUME ConnectionInv, MarksInv, NEW k \in Callers, RemoveDisconnects(k)
  PROVE  MarksInv'
<1>1. PICK r \in CallType : r = call[k] /\ CallForm(r, made) /\ r.step = "disconnect" /\ r.op = "remove"
  BY OneCall DEF RemoveDisconnects, CallOk
<1>2. PICK c : c = [r EXCEPT !.step = "delete", !.quit = Absent]
  OBVIOUS
<1>3. c \in CallType /\ c.op = "remove" /\ c.id = r.id /\ c.step = "delete"
  BY <1>1, <1>2 DEF CallType
<1>4. /\ call' = [call EXCEPT ![k] = c] /\ Forget(c.id)
      /\ UNCHANGED <<rows, rowFlag, defaultId, made, parted>>
  BY <1>1, <1>2, <1>3 DEF RemoveDisconnects
<1>5. CallForm(c, made)
  BY <1>3 DEF CallForm
<1>6. rowFlag' \subseteq rows' /\ IsFiniteSet(rowFlag') /\ rows' \subseteq made
  BY <1>4 DEF MarksInv
<1>7. ASSUME ~parted'
      PROVE  Calm(call', configs', flagged', rowFlag', defaultId', rows')
  <2>1. ~parted /\ TouchesDefault(r) /\ call \in [Callers -> CallType]
    BY <1>1, <1>4, <1>7, OneCall DEF TouchesDefault
  <2>2. /\ \A j \in Callers \ {k} : call[j] = NoCall
        /\ configs \intersect Links \subseteq rows
        /\ Settled(configs, flagged, rowFlag, defaultId)
    BY <1>1, <2>1, InFlight DEF Turning
  <2>3. /\ AloneOk(c, configs', flagged', rowFlag', defaultId')
        /\ configs' \intersect Links \subseteq rows'
    BY <1>3, <1>4, <2>2, ForgetTurns
  <2>4. QED
    BY <1>3, <1>4, <2>1, <2>2, <2>3, AloneCalm
<1>8. QED
  BY <1>4, <1>5, <1>6, <1>7, MarksMove

\* removeConnection after the row is gone: the default was another, or there is
\* none left, or the next one is about to be marked.
LEMMA RemoveDeletesMarks ==
  ASSUME ConnectionInv, MarksInv, NEW k \in Callers, RemoveDeletes(k)
  PROVE  MarksInv'
<1>1. PICK r \in CallType : r = call[k] /\ CallForm(r, made) /\ r.step = "delete" /\ r.op = "remove"
  BY OneCall DEF RemoveDeletes, CallOk
<1>2. /\ rows' = rows \ {r.id} /\ rowFlag' = rowFlag \ {r.id}
      /\ UNCHANGED <<configs, made, parted>>
  BY <1>1 DEF RemoveDeletes
<1>3. rowFlag' \subseteq rows' /\ IsFiniteSet(rowFlag') /\ rows' \subseteq made
  <2>1. IsFiniteSet(rowFlag')
    BY <1>2, FS_Subset DEF MarksInv
  <2>2. QED
    BY <1>2, <2>1 DEF MarksInv
<1>4. ASSUME ~parted
      PROVE  /\ call \in [Callers -> CallType] /\ \A j \in Callers \ {k} : call[j] = NoCall
             /\ configs' \intersect Links \subseteq rows'
             /\ r.id \notin configs /\ defaultId \in configs \union {Absent, r.id}
             /\ \A i \in Links : i \in flagged <=> i = defaultId /\ i # r.id
             /\ Marks(rowFlag, defaultId)
  <2>1. TouchesDefault(r) /\ call \in [Callers -> CallType]
    BY <1>1, OneCall DEF TouchesDefault
  <2>2. /\ \A j \in Callers \ {k} : call[j] = NoCall
        /\ configs \intersect Links \subseteq rows
        /\ Turning(r, configs, flagged, rowFlag, defaultId)
    BY <1>1, <1>4, <2>1, InFlight
  <2>3. QED
    BY <1>1, <1>2, <2>1, <2>2 DEF Turning
<1>5. CASE /\ call' = [call EXCEPT ![k] = NoCall] /\ UNCHANGED flagged
           /\ \/ defaultId # r.id /\ defaultId' = defaultId
              \/ defaultId = r.id /\ defaultId' = Absent
  <2>1. ASSUME ~parted'
        PROVE  Calm(call', configs', flagged', rowFlag', defaultId', rows')
    <3>1. ~parted
      BY <1>2, <2>1
    <3>2. Settled(configs', flagged', rowFlag', defaultId')
      BY <1>2, <1>4, <1>5, <3>1, RegistryAssumption DEF Settled, Marks
    <3>3. AloneOk(NoCall, configs', flagged', rowFlag', defaultId')
      BY <3>2 DEF AloneOk
    <3>4. QED
      BY <1>4, <1>5, <3>1, <3>3, NoCallQuiet, AloneCalm
  <2>2. QED
    BY <1>2, <1>3, <1>5, <2>1, NoCallQuiet, MarksMove
<1>6. CASE /\ defaultId = r.id /\ UNCHANGED defaultId
           /\ \E next \in configs : SetDefaultBegins(k, [r EXCEPT !.id = next], configs, flagged)
  <2>1. PICK next \in configs : SetDefaultBegins(k, [r EXCEPT !.id = next], configs, flagged)
    BY <1>6
  <2>2. PICK cfgs \in SUBSET Ids : cfgs = configs
    BY DEF ConnectionInv, RegistryShape
  <2>3. PICK flags : flags = flagged
    OBVIOUS
  <2>4. PICK c : c = [r EXCEPT !.id = next]
    OBVIOUS
  <2>5. c \in CallType /\ c.op = "remove" /\ c.id = next /\ c.id \in cfgs
    BY <1>1, <2>2, <2>4 DEF CallType
  <2>6. SetDefaultBegins(k, c, cfgs, flags)
    BY <2>1, <2>2, <2>3, <2>4
  <2>7. PICK e : call' = [call EXCEPT ![k] = e] /\ e.op = "remove" /\ e.step \in {"unmark", "mark"}
    BY <2>5, <2>6, SetDefaultAwaits
  <2>8. CallForm(e, made)
    BY <2>7 DEF CallForm
  <2>9. ASSUME ~parted'
        PROVE  Calm(call', configs', flagged', rowFlag', defaultId', rows')
    <3>1. ~parted
      BY <1>2, <2>9
    <3>2. PICK R : R = rowFlag'
      OBVIOUS
    <3>3. defaultId \notin cfgs /\ Marks(flags, Absent) /\ Marks(R, Absent)
      BY <1>2, <1>4, <1>6, <2>2, <2>3, <3>1, <3>2, RegistryAssumption DEF Marks
    <3>4. TouchesDefault(c) /\ c.op \in {"default", "add", "remove"}
      BY <2>5 DEF TouchesDefault
    <3>5. call \in [Callers -> CallType]
      BY <1>4, <3>1
    <3>6. PICK d \in CallType :
             /\ call' = [call EXCEPT ![k] = d] /\ d.op = c.op /\ d.step \in {"unmark", "mark"}
             /\ TouchesDefault(d) /\ Turning(d, cfgs, flagged', R, defaultId)
      BY <2>5, <2>6, <3>3, <3>4, <3>5, DefaultTurns
    <3>7. AloneOk(d, cfgs, flagged', R, defaultId)
      BY <2>5, <3>6 DEF AloneOk
    <3>8. cfgs \intersect Links \subseteq rows'
      BY <1>2, <1>4, <2>2, <3>1
    <3>9. Calm(call', cfgs, flagged', R, defaultId, rows')
      BY <1>4, <3>1, <3>6, <3>7, <3>8, AloneCalm
    <3>10. QED
      BY <1>2, <1>6, <2>2, <3>2, <3>9
  <2>10. QED
    BY <1>2, <1>3, <2>7, <2>8, <2>9, MarksMove
<1>7. QED
  BY <1>1, <1>5, <1>6 DEF RemoveDeletes, Ends

\* reconnect writes back what it read: nobody else has moved the mark.
LEMMA ReconnectMarks ==
  ASSUME ConnectionInv, MarksInv, NEW k \in Callers,
         ReconnectConnects(k) \/ ReconnectSwaps(k) \/ ReconnectFails(k)
  PROVE  MarksInv'
<1>1. PICK r \in CallType : /\ r = call[k] /\ CallForm(r, made) /\ r.step \in {"connect", "swap"}
                            /\ r.id \in Ids
  BY OneCall DEF ReconnectConnects, ReconnectSwaps, ReconnectFails, CallOk, Ids
<1>2. r.op = "reconnect" /\ ~r.mark /\ r.old \in {r.id, Absent}
  BY <1>1 DEF CallForm
<1>3. ~TouchesDefault(r)
  BY <1>2 DEF TouchesDefault
<1>4. UNCHANGED <<rows, rowFlag, defaultId, made, parted>>
  BY DEF ReconnectConnects, ReconnectSwaps, ReconnectFails
<1>5. rowFlag' \subseteq rows' /\ IsFiniteSet(rowFlag') /\ rows' \subseteq made
  BY <1>4 DEF MarksInv
<1>6. ASSUME ~parted
      PROVE  /\ call \in [Callers -> CallType] /\ \A j \in Callers : ~TouchesDefault(call[j])
             /\ Calm(call, configs, flagged, rowFlag, defaultId, rows)
             /\ configs \intersect Links \subseteq rows
             /\ r.id \in Links => r.id \in configs /\ (r.old = r.id <=> r.id \in flagged)
             /\ \A j \in Callers \ {k} : call[j].step = "save" =>
                  call[j].id \notin configs /\ call[j].id \in Links /\ call[j].id # r.id
  <2>1. /\ call \in [Callers -> CallType] /\ \A j \in Callers : ~TouchesDefault(call[j])
        /\ configs \intersect Links \subseteq rows
    BY <1>1, <1>3, <1>6, OneCall, InFlight
  <2>2. Calm(call, configs, flagged, rowFlag, defaultId, rows)
    BY <1>6 DEF MarksInv
  <2>3. \A j \in Callers : call[j].step = "save" => call[j].id \in Links
    BY DEF ConnectionInv, RegistryShape, CallsOk, CallOk
  <2>4. QED
    BY <1>1, <1>2, <2>1, <2>2, <2>3 DEF Calm
<1>7. CASE ReconnectConnects(k)
  <2>1. PICK c : c = [r EXCEPT !.step = "swap", !.quit = connections[r.id]]
    OBVIOUS
  <2>2. /\ c \in CallType /\ c.op = r.op /\ c.id = r.id /\ c.mark = r.mark /\ c.old = r.old
        /\ c.step = "swap"
    BY <1>1, <2>1 DEF CallType, ConnectionInv, RegistryShape
  <2>3. call' = [call EXCEPT ![k] = c] /\ UNCHANGED <<configs, flagged>>
    BY <1>1, <1>7, <2>1 DEF ReconnectConnects
  <2>4. CallForm(c, made)
    BY <1>2, <2>2 DEF CallForm
  <2>5. ASSUME ~parted'
        PROVE  Calm(call', configs', flagged', rowFlag', defaultId', rows')
    <3>1. ~parted
      BY <1>4, <2>5
    <3>2. QuietOk(call, k, c, configs, flagged)
      BY <1>2, <1>6, <2>2, <3>1 DEF QuietOk, TouchesDefault
    <3>3. Calm(call', configs, flagged, rowFlag, defaultId, rows)
      BY <1>6, <2>2, <2>3, <3>1, <3>2, QuietCalm
    <3>4. QED
      BY <1>4, <2>3, <3>3
  <2>6. QED
    BY <1>4, <1>5, <2>3, <2>4, <2>5, MarksMove
<1>8. CASE ReconnectSwaps(k) \/ ReconnectFails(k)
  <2>1. /\ call' = [call EXCEPT ![k] = NoCall] /\ configs' = configs \union {r.id}
        /\ flagged' = (flagged \ {r.id}) \union ({r.old} \ {Absent})
    BY <1>1, <1>8 DEF ReconnectSwaps, ReconnectFails, RestoreConfig, Ends
  <2>2. ASSUME ~parted'
        PROVE  Calm(call', configs', flagged', rowFlag', defaultId', rows')
    <3>1. ~parted
      BY <1>4, <2>2
    <3>2. \A i \in Links : i \in flagged <=> i \in flagged'
      BY <1>1, <1>2, <1>6, <2>1, <3>1, RegistryAssumption DEF Ids
    <3>3. configs \subseteq configs' /\ configs' \intersect Links \subseteq rows
      BY <1>1, <1>6, <2>1, <3>1
    <3>4. QuietOk(call, k, NoCall, configs', flagged')
      BY <1>6, <2>1, <3>1, NoCallQuiet, RegistryAssumption DEF QuietOk
    <3>5. Calm(call', configs', flagged', rowFlag, defaultId, rows)
      BY <1>6, <2>1, <3>1, <3>2, <3>3, <3>4, NoCallQuiet, QuietCalm
    <3>6. QED
      BY <1>4, <3>5
  <2>3. QED
    BY <1>4, <1>5, <2>1, <2>2, NoCallQuiet, MarksMove
<1>9. QED
  BY <1>7, <1>8

\* A removal begins: with the disconnect, or with the maps cleared at once.
LEMMA RemoveMarks ==
  ASSUME ConnectionInv, MarksInv, NEW k \in Callers, NEW i \in Ids,
         RemoveBegins(k, i) \/ RemoveAtOnce(k, i)
  PROVE  MarksInv'
<1>1. \E s \in {"disconnect", "delete"}, c \in CallType :
         /\ c.op = "remove" /\ c.step = s /\ c.id = i
         /\ call[k] = NoCall
         /\ call' = [call EXCEPT ![k] = c] /\ parted' = (parted \/ Overlaps(k, c))
         /\ UNCHANGED <<rows, rowFlag, defaultId, made>>
         /\ \/ s = "disconnect" /\ UNCHANGED <<configs, flagged>>
            \/ s = "delete" /\ Forget(i)
  <2>1. CASE RemoveBegins(k, i)
    <3>1. PICK c : c = [NoCall EXCEPT !.op = "remove", !.step = "disconnect", !.id = i,
                                      !.quit = connections[i]]
      OBVIOUS
    <3>2. c \in CallType /\ c.op = "remove" /\ c.step = "disconnect" /\ c.id = i
      BY <3>1 DEF NoCall, CallType, ConnectionInv, RegistryShape
    <3>3. QED
      BY <2>1, <3>1, <3>2 DEF RemoveBegins, Begins
  <2>2. CASE RemoveAtOnce(k, i)
    <3>1. PICK c : c = [NoCall EXCEPT !.op = "remove", !.step = "delete", !.id = i]
      OBVIOUS
    <3>2. c \in CallType /\ c.op = "remove" /\ c.step = "delete" /\ c.id = i
      BY <3>1 DEF NoCall, CallType
    <3>3. QED
      BY <2>2, <3>1, <3>2 DEF RemoveAtOnce, Begins
  <2>3. QED
    BY <2>1, <2>2
<1>2. PICK s \in {"disconnect", "delete"}, c \in CallType :
         /\ c.op = "remove" /\ c.step = s /\ c.id = i
         /\ call[k] = NoCall
         /\ call' = [call EXCEPT ![k] = c] /\ parted' = (parted \/ Overlaps(k, c))
         /\ UNCHANGED <<rows, rowFlag, defaultId, made>>
         /\ \/ s = "disconnect" /\ UNCHANGED <<configs, flagged>>
            \/ s = "delete" /\ Forget(i)
  BY <1>1
<1>5. CallForm(c, made) /\ TouchesDefault(c)
  BY <1>2 DEF CallForm, TouchesDefault
<1>6. rowFlag' \subseteq rows' /\ IsFiniteSet(rowFlag') /\ rows' \subseteq made
  BY <1>2 DEF MarksInv
<1>7. ASSUME ~parted'
      PROVE  Calm(call', configs', flagged', rowFlag', defaultId', rows')
  <2>1. ~parted /\ ~Overlaps(k, c) /\ call \in [Callers -> CallType]
    BY <1>2, <1>7, OneCall
  <2>2. /\ \A j \in Callers \ {k} : call[j] = NoCall
        /\ configs \intersect Links \subseteq rows
        /\ Settled(configs, flagged, rowFlag, defaultId)
    BY <1>2, <1>5, <2>1, BeginsAlone
  <2>3. /\ AloneOk(c, configs', flagged', rowFlag', defaultId')
        /\ configs' \intersect Links \subseteq rows'
    <3>1. CASE s = "disconnect" /\ UNCHANGED <<configs, flagged>>
      BY <1>2, <1>5, <2>2, <3>1 DEF AloneOk, Turning
    <3>2. CASE s = "delete" /\ Forget(i)
      <4>1. c.step = "delete" /\ Forget(c.id) /\ UNCHANGED <<rows, rowFlag, defaultId>>
        BY <1>2, <3>2
      <4>2. QED
        BY <1>2, <2>2, <4>1, ForgetTurns
    <3>3. QED
      BY <1>2, <3>1, <3>2
  <2>4. QED
    BY <1>2, <2>1, <2>2, <2>3, AloneCalm
<1>8. QED
  BY <1>2, <1>5, <1>6, <1>7, MarksMove

\* addConnection: a new id, which no other call and no map knows.
LEMMA AddMarks ==
  ASSUME ConnectionInv, MarksInv, NEW k \in Callers, NEW i \in Links, NEW m \in BOOLEAN,
         AddConnection(k, i, m)
  PROVE  MarksInv'
<1>1. PICK c : c = [NoCall EXCEPT !.op = "add", !.step = "save", !.id = i, !.mark = m, !.new = NewAdapter]
  OBVIOUS
<1>2. c \in CallType /\ c.op = "add" /\ c.step = "save" /\ c.id = i /\ c.mark = m
  BY <1>1, NewIsAdapter DEF AddConnection, NoCall, CallType, Ids
<1>3. /\ call[k] = NoCall /\ call' = [call EXCEPT ![k] = c] /\ parted' = (parted \/ Overlaps(k, c))
      /\ i \notin made /\ made' = made \union {i}
      /\ UNCHANGED <<rows, rowFlag, configs, flagged, defaultId>>
  BY <1>1 DEF AddConnection, Begins
<1>4. CallForm(c, made')
  BY <1>2, <1>3 DEF CallForm
<1>5. call \in [Callers -> CallType]
  BY OneCall
<1>6. \A j \in Callers : CallForm(call'[j], made')
  BY <1>3, <1>4, <1>5, FormUpdated
<1>7. rowFlag' \subseteq rows' /\ IsFiniteSet(rowFlag') /\ rows' \union {EnvDefault} \subseteq made'
  BY <1>3 DEF MarksInv
<1>8. ASSUME ~parted'
      PROVE  Calm(call', configs', flagged', rowFlag', defaultId', rows')
  <2>1. ~parted /\ ~Overlaps(k, c) /\ Calm(call, configs, flagged, rowFlag, defaultId, rows)
    BY <1>3, <1>8 DEF MarksInv
  <2>2. configs \intersect Links \subseteq rows /\ i \notin configs
    BY <1>3, <2>1 DEF Calm, MarksInv
  <2>3. CASE TouchesDefault(c)
    <3>1. /\ \A j \in Callers \ {k} : call[j] = NoCall
          /\ Settled(configs, flagged, rowFlag, defaultId)
      BY <1>3, <2>1, <2>3, BeginsAlone
    <3>2. AloneOk(c, configs, flagged, rowFlag, defaultId)
      BY <1>2, <2>2, <2>3, <3>1 DEF AloneOk, Turning
    <3>3. Calm(call', configs, flagged, rowFlag, defaultId, rows)
      BY <1>2, <1>3, <1>5, <2>2, <3>1, <3>2, AloneCalm
    <3>4. QED
      BY <1>3, <3>3
  <2>4. CASE ~TouchesDefault(c)
    <3>1. \A j \in Callers : ~TouchesDefault(call[j])
      BY <1>3, <2>1, BeginsQuiet
    <3>2. ASSUME NEW j \in Callers \ {k}
          PROVE  call[j].id # i
      <4>1. CallForm(call[j], made) /\ call[j] \in CallType /\ ~TouchesDefault(call[j])
        BY <1>5, <3>1 DEF MarksInv
      <4>2. CASE call[j].op = "none"
        BY <4>1, <4>2, NoCallQuiet, RegistryAssumption DEF CallForm
      <4>3. CASE call[j].op = "add"
        BY <1>3, <4>1, <4>3 DEF CallForm
      <4>4. CASE call[j].op = "reconnect"
        BY <2>1, <2>2, <4>4 DEF Calm
      <4>5. QED
        BY <4>1, <4>2, <4>3, <4>4 DEF CallType, TouchesDefault
    <3>3. QuietOk(call, k, c, configs, flagged)
      BY <1>2, <2>1, <2>2, <2>4, <3>2 DEF QuietOk, Calm
    <3>4. Calm(call', configs, flagged, rowFlag, defaultId, rows)
      BY <1>2, <1>3, <1>5, <2>1, <2>2, <3>1, <3>3, QuietCalm
    <3>5. QED
      BY <1>3, <3>4
  <2>5. QED
    BY <2>3, <2>4
<1>9. QED
  BY <1>6, <1>7, <1>8 DEF MarksInv

\* setDefault begins.
LEMMA SetDefaultMarks ==
  ASSUME ConnectionInv, MarksInv, NEW k \in Callers, NEW i \in Ids, SetDefault(k, i)
  PROVE  MarksInv'
<1>1. PICK c : c = [NoCall EXCEPT !.op = "default", !.id = i]
  OBVIOUS
<1>2. c \in CallType /\ c.op = "default" /\ c.id = i
  BY <1>1 DEF NoCall, CallType
<1>3. PICK cfgs \in SUBSET Ids : cfgs = configs
  BY DEF ConnectionInv, RegistryShape
<1>4. PICK flags : flags = flagged
  OBVIOUS
<1>5. /\ call[k] = NoCall /\ i \in cfgs /\ SetDefaultBegins(k, c, cfgs, flags)
      /\ parted' = (parted \/ Overlaps(k, c))
      /\ UNCHANGED <<rows, rowFlag, configs, defaultId, made>>
  BY <1>1, <1>3, <1>4 DEF SetDefault
<1>6. PICK e : call' = [call EXCEPT ![k] = e] /\ e.op = "default" /\ e.step \in {"unmark", "mark"}
  BY <1>2, <1>5, SetDefaultAwaits
<1>7. CallForm(e, made)
  BY <1>6 DEF CallForm
<1>8. rowFlag' \subseteq rows' /\ IsFiniteSet(rowFlag') /\ rows' \subseteq made
  BY <1>5 DEF MarksInv
<1>9. ASSUME ~parted'
      PROVE  Calm(call', configs', flagged', rowFlag', defaultId', rows')
  <2>1. ~parted /\ ~Overlaps(k, c) /\ call \in [Callers -> CallType]
    BY <1>5, <1>9, OneCall
  <2>2. TouchesDefault(c) /\ c.op \in {"default", "add", "remove"}
    BY <1>2 DEF TouchesDefault
  <2>3. /\ \A j \in Callers \ {k} : call[j] = NoCall
        /\ configs \intersect Links \subseteq rows
        /\ Settled(configs, flagged, rowFlag, defaultId)
    BY <1>5, <2>1, <2>2, BeginsAlone
  <2>4. Settled(cfgs, flags, rowFlag, defaultId) /\ c.id \in cfgs
    BY <1>2, <1>3, <1>4, <1>5, <2>3
  <2>5. PICK d \in CallType :
           /\ call' = [call EXCEPT ![k] = d] /\ d.op = c.op /\ d.step \in {"unmark", "mark"}
           /\ TouchesDefault(d) /\ Turning(d, cfgs, flagged', rowFlag, defaultId)
    BY <1>2, <1>5, <2>1, <2>2, <2>4, DefaultTurns
  <2>6. AloneOk(d, cfgs, flagged', rowFlag, defaultId) /\ cfgs \intersect Links \subseteq rows
    BY <1>2, <1>3, <2>3, <2>5 DEF AloneOk
  <2>7. Calm(call', cfgs, flagged', rowFlag, defaultId, rows)
    BY <2>1, <2>3, <2>5, <2>6, AloneCalm
  <2>8. QED
    BY <1>3, <1>5, <2>7
<1>10. QED
  BY <1>5, <1>6, <1>7, <1>8, <1>9, MarksMove

\* reconnect begins: it reads its config, mark included.
LEMMA ReconnectBeginsMarks ==
  ASSUME ConnectionInv, MarksInv, NEW k \in Callers, NEW i \in Ids, Reconnect(k, i)
  PROVE  MarksInv'
<1>1. PICK o \in Ids \union {Absent} : o = IF i \in flagged THEN i ELSE Absent
  OBVIOUS
<1>2. PICK c : c = [NoCall EXCEPT !.op = "reconnect", !.step = "connect", !.id = i, !.old = o,
                                  !.new = NewAdapter]
  OBVIOUS
<1>3. c \in CallType /\ c.op = "reconnect" /\ c.step = "connect" /\ c.id = i /\ c.old = o /\ ~c.mark
  BY <1>2, NewIsAdapter DEF Reconnect, NoCall, CallType
<1>4. /\ call[k] = NoCall /\ call' = [call EXCEPT ![k] = c] /\ parted' = (parted \/ Overlaps(k, c))
      /\ i \in configs /\ UNCHANGED <<rows, rowFlag, configs, flagged, defaultId, made>>
  BY <1>1, <1>2 DEF Reconnect, Begins
<1>5. CallForm(c, made)
  BY <1>1, <1>3 DEF CallForm
<1>6. rowFlag' \subseteq rows' /\ IsFiniteSet(rowFlag') /\ rows' \subseteq made
  BY <1>4 DEF MarksInv
<1>7. ASSUME ~parted'
      PROVE  Calm(call', configs', flagged', rowFlag', defaultId', rows')
  <2>1. /\ ~Overlaps(k, c) /\ call \in [Callers -> CallType]
        /\ Calm(call, configs, flagged, rowFlag, defaultId, rows)
    BY <1>4, <1>7, OneCall DEF MarksInv
  <2>2. \A j \in Callers : ~TouchesDefault(call[j])
    BY <1>4, <2>1, BeginsQuiet
  <2>3. QuietOk(call, k, c, configs, flagged)
    BY <1>1, <1>3, <1>4, <2>1, RegistryAssumption DEF QuietOk, Calm, TouchesDefault
  <2>4. configs \intersect Links \subseteq rows
    BY <2>1 DEF Calm
  <2>5. Calm(call', configs, flagged, rowFlag, defaultId, rows)
    BY <1>3, <1>4, <2>1, <2>2, <2>3, <2>4, QuietCalm
  <2>6. QED
    BY <1>4, <2>5
<1>8. QED
  BY <1>4, <1>5, <1>6, <1>7, MarksMove

\* Every step of an API call.
LEMMA CallMarks ==
  ASSUME ConnectionInv, MarksInv, NEW k \in Callers, RegistryCalls(k)
  PROVE  MarksInv'
<1>1. \A i \in Links : i \in Ids
  BY DEF Ids
<1>2. CASE CallStep(k)
  BY <1>2, UnmarkMarks, MarkMarks, FailureMarks, AddSavesMarks, GivesUpMarks,
     RemoveDisconnectsMarks, RemoveDeletesMarks, ReconnectMarks DEF CallStep
<1>3. ASSUME NEW i \in Links, RemoveBegins(k, i) \/ RemoveAtOnce(k, i) PROVE MarksInv'
  BY <1>1, <1>3, RemoveMarks
<1>4. ASSUME NEW i \in Links, NEW d \in BOOLEAN, AddConnection(k, i, d) PROVE MarksInv'
  BY <1>4, AddMarks
<1>5. ASSUME NEW i \in Ids, SetDefault(k, i) \/ Reconnect(k, i) PROVE MarksInv'
  BY <1>5, SetDefaultMarks, ReconnectBeginsMarks
<1>6. QED
  BY <1>2, <1>3, <1>4, <1>5 DEF RegistryCalls

-----------------------------------------------------------------------------
(* Agents, restarts, and the theorem *)

\* What MarksInv is about stays as it is.
LEMMA MarksStutter ==
  ASSUME MarksInv,
         UNCHANGED <<rows, rowFlag, configs, flagged, defaultId, made, call, parted>>
  PROVE  MarksInv'
  BY DEF MarksInv

\* With no call in flight every caller is idle.
LEMMA NobodyCalls ==
  ASSUME MarksInv, InCall = {}
  PROVE  \A k \in Callers : call[k] = NoCall
  BY DEF MarksInv, InCall, CallForm

\* An agent comes or goes between calls: the marks of direct connections are
\* none of its business, and it may become the default only where there is none.
LEMMA AgentMarks ==
  ASSUME MarksInv, NEW g \in Agents,
         UNCHANGED <<rows, rowFlag, made, call>>,
         \A i \in Links : i \in flagged <=> i \in flagged',
         \A i \in Links : i \in configs <=> i \in configs',
         ~parted' => /\ ~parted /\ InCall = {}
                     /\ defaultId \in configs \union {Absent} => defaultId' \in configs' \union {Absent}
                     /\ defaultId' = defaultId \/ (defaultId = Absent /\ defaultId' = g)
  PROVE  MarksInv'
<1>1. ASSUME ~parted'
      PROVE  Calm(call', configs', flagged', rowFlag', defaultId', rows')
  <2>1. ~parted /\ \A k \in Callers : call[k] = NoCall
    BY <1>1, NobodyCalls
  <2>2. configs \intersect Links \subseteq rows /\ Settled(configs, flagged, rowFlag, defaultId)
    BY <2>1, NoCallQuiet DEF MarksInv, Calm
  <2>3. Settled(configs', flagged', rowFlag', defaultId')
    BY <1>1, <2>2, RegistryAssumption DEF Settled, Marks
  <2>4. configs' \intersect Links \subseteq rows' /\ \A k \in Callers : call'[k] = NoCall
    BY <2>1, <2>2
  <2>5. QED
    BY <2>3, <2>4, IdleCalm
<1>2. QED
  BY <1>1 DEF MarksInv

\* The gateway's steps.
LEMMA GatewayMarks ==
  ASSUME ConnectionInv, MarksInv, GatewayNext(Callers)
  PROVE  MarksInv'
<1>1. ASSUME NEW w \in Sockets, AskToClose(w) \/ \E g \in Agents : OnConnection(w, g) PROVE MarksInv'
  <2>1. UNCHANGED <<rows, rowFlag, configs, flagged, defaultId, made, call, parted>>
    BY <1>1 DEF AskToClose, OnConnection, registryVars
  <2>2. QED
    BY <2>1, MarksStutter
<1>2. ASSUME NEW w \in Sockets, RegisterAgent(w) PROVE MarksInv'
  <2>1. PICK g \in Agents : g = owner[w]
    BY <1>2 DEF RegisterAgent, ConnectionInv, GatewayShape
  <2>2. /\ configs' = configs \union {g} /\ flagged' = flagged \ {g}
        /\ defaultId' = IF defaultId = Absent THEN g ELSE defaultId
        /\ parted' = (parted \/ InCall # {})
        /\ UNCHANGED <<rows, rowFlag, made, call>>
    BY <1>2, <2>1 DEF RegisterAgent
  <2>3. g \notin Links
    BY RegistryAssumption
  <2>4. QED
    BY <2>2, <2>3, AgentMarks
<1>3. ASSUME NEW w \in Sockets, SocketCloses(w) PROVE MarksInv'
  <2>1. PICK g \in Agents : g = owner[w]
    BY <1>3 DEF SocketCloses, ConnectionInv, GatewayShape
  <2>2. CASE agents[g] = Absent
    <3>1. UNCHANGED <<rows, rowFlag, configs, flagged, defaultId, made, call, parted>>
      BY <1>3, <2>1, <2>2 DEF SocketCloses, registryVars
    <3>2. QED
      BY <3>1, MarksStutter
  <2>3. CASE agents[g] # Absent
    <3>1. /\ configs' = configs \ {g} /\ flagged' = flagged \ {g}
          /\ defaultId # g => defaultId' = defaultId
          /\ parted' = (parted \/ defaultId = g \/ InCall # {})
          /\ UNCHANGED <<rows, rowFlag, made, call>>
      BY <1>3, <2>1, <2>3 DEF SocketCloses, UnregisterAgent, Forget
    <3>2. g \notin Links
      BY RegistryAssumption
    <3>3. QED
      BY <3>1, <3>2, AgentMarks
  <2>4. QED
    BY <2>2, <2>3
<1>4. ASSUME NEW k \in Callers, NEW g \in Agents, RemoveAgent(k, g) PROVE MarksInv'
  <2>1. g \in Ids
    BY DEF Ids
  <2>2. QED
    BY <1>4, <2>1, RemoveMarks DEF RemoveAgent
<1>5. QED
  BY <1>1, <1>2, <1>3, <1>4 DEF GatewayNext

\* loadConnections: the start agrees with what it finds, unless two rows claim
\* the default.
LEMMA RestartMarks ==
  ASSUME ConnectionInv, MarksInv, RestartAll
  PROVE  MarksInv'
<1>1. /\ rows' \in (IF rows = {} THEN {{}, {EnvDefault}} ELSE {rows})
      /\ configs' = rows' /\ flagged' = rowFlag' /\ UNCHANGED made
      /\ IF rowFlag = {}
         THEN \/ rows' = {} /\ defaultId' = Absent /\ UNCHANGED rowFlag
              \/ \E first \in rows' : defaultId' = first /\ rowFlag' = {first}
         ELSE defaultId' \in rowFlag /\ UNCHANGED rowFlag
      /\ parted' = (Cardinality(rowFlag) > 1)
      /\ call' = [k \in Callers |-> NoCall]
  BY DEF RestartAll, GatewayRestart, Restart
<1>2. rowFlag \subseteq rows /\ IsFiniteSet(rowFlag) /\ rows \union {EnvDefault} \subseteq made
  BY DEF MarksInv
<1>3. rows' \union {EnvDefault} \subseteq made' /\ rows' \subseteq Links
  BY <1>1, <1>2, RegistryAssumption DEF ConnectionInv, RegistryShape
<1>4. rowFlag' \subseteq rows' /\ IsFiniteSet(rowFlag')
  <2>1. CASE rowFlag' = rowFlag
    BY <1>1, <1>2, <2>1
  <2>2. CASE \E first \in rows' : rowFlag' = {first}
    BY <2>2, FS_Singleton
  <2>3. QED
    BY <1>1, <2>1, <2>2
<1>5. \A k \in Callers : call'[k] = NoCall
  BY <1>1
<1>6. ASSUME ~parted'
      PROVE  Settled(configs', flagged', rowFlag', defaultId')
  <2>1. CASE rowFlag = {}
    <3>1. CASE rows' = {} /\ defaultId' = Absent /\ UNCHANGED rowFlag
      BY <1>1, <2>1, <3>1, RegistryAssumption DEF Settled, Marks
    <3>2. CASE \E first \in rows' : defaultId' = first /\ rowFlag' = {first}
      BY <1>1, <3>2 DEF Settled, Marks
    <3>3. QED
      BY <1>1, <2>1, <3>1, <3>2
  <2>2. CASE rowFlag # {}
    <3>1. defaultId' \in rowFlag /\ rowFlag' = rowFlag /\ defaultId' \in rows'
      BY <1>1, <1>2, <2>2
    <3>2. Cardinality(rowFlag) \in Nat /\ ~(Cardinality(rowFlag) > 1)
      BY <1>1, <1>2, <1>6, FS_CardinalityType
    <3>3. rowFlag = {defaultId'}
      <4>1. PICK d : d = defaultId'
        OBVIOUS
      <4>2. {d} \in SUBSET rowFlag /\ Cardinality({d}) = 1 /\ IsFiniteSet({d})
        BY <3>1, <4>1, FS_Singleton
      <4>3. /\ Cardinality({d}) <= Cardinality(rowFlag)
            /\ Cardinality({d}) = Cardinality(rowFlag) => {d} = rowFlag
        BY <1>2, <4>2, FS_Subset
      <4>4. Cardinality(rowFlag) = 1
        BY <3>2, <4>2, <4>3
      <4>5. QED
        BY <4>1, <4>2, <4>3, <4>4
    <3>4. QED
      BY <1>1, <3>1, <3>3 DEF Settled, Marks
  <2>3. QED
    BY <2>1, <2>2
<1>7. ~parted' => Calm(call', configs', flagged', rowFlag', defaultId', rows')
  <2>1. configs' \intersect Links \subseteq rows'
    BY <1>1
  <2>2. QED
    BY <1>5, <1>6, <2>1, IdleCalm
<1>8. QED
  BY <1>3, <1>4, <1>5, <1>7, NoCallQuiet DEF MarksInv

\* After the first start.
LEMMA MarksInitially == ConnectionInit => MarksInv
<1> SUFFICES ASSUME ConnectionInit PROVE MarksInv
  OBVIOUS
<1>1. /\ rows \in {{}, {EnvDefault}} /\ rowFlag = rows /\ configs = rows /\ flagged = rows
      /\ defaultId = (IF rows = {} THEN Absent ELSE EnvDefault)
      /\ made = {EnvDefault} /\ call = [k \in Callers |-> NoCall]
  BY DEF ConnectionInit, RegistryInit
<1>2. IsFiniteSet(rowFlag)
  <2>1. IsFiniteSet({}) /\ IsFiniteSet({EnvDefault})
    BY FS_EmptySet, FS_Singleton
  <2>2. rowFlag = {} \/ rowFlag = {EnvDefault}
    BY <1>1
  <2>3. QED
    BY <2>1, <2>2
<1>3. Settled(configs, flagged, rowFlag, defaultId)
  BY <1>1, RegistryAssumption DEF Settled, Marks
<1>4. \A k \in Callers : call[k] = NoCall
  BY <1>1
<1>5. configs \intersect Links \subseteq rows
  BY <1>1
<1>6. Calm(call, configs, flagged, rowFlag, defaultId, rows)
  BY <1>3, <1>4, <1>5, IdleCalm
<1>7. QED
  BY <1>1, <1>2, <1>4, <1>6, NoCallQuiet DEF MarksInv

\* Every step.
LEMMA MarksInductive ==
  ConnectionInv /\ MarksInv /\ [ConnectionNext]_connectionVars => MarksInv'
<1> SUFFICES ASSUME ConnectionInv, MarksInv, [ConnectionNext]_connectionVars
             PROVE  MarksInv'
  OBVIOUS
<1>1. CASE RegistryNext(Callers)
  <2>1. ASSUME NEW i \in Links, AddRefused(i) PROVE MarksInv'
    <3>1. made \subseteq made' /\ UNCHANGED <<rows, rowFlag, configs, flagged, defaultId, call, parted>>
      BY <2>1 DEF AddRefused
    <3>2. \A k \in Callers : CallForm(call'[k], made')
      BY <3>1 DEF MarksInv, CallForm
    <3>3. QED
      BY <3>1, <3>2 DEF MarksInv
  <2>2. QED
    BY <1>1, <2>1, CallMarks DEF RegistryNext
<1>2. CASE GatewayNext(Callers)
  BY <1>2, GatewayMarks
<1>3. CASE LinkNext \/ PollerNext \/ UNCHANGED connectionVars
  <2>1. UNCHANGED <<rows, rowFlag, configs, flagged, defaultId, made, call, parted>>
    BY <1>3 DEF LinkNext, LinkDrops, LinkRecovers, PollerNext, PollTick, PollTickEnds, PollEnds,
                connectionVars, registryVars
  <2>2. QED
    BY <2>1, MarksStutter
<1>4. CASE RestartAll
  BY <1>4, RestartMarks
<1> QED
  BY <1>1, <1>2, <1>3, <1>4 DEF ConnectionNext

\* Calls that touch the default one at a time, with no failed write and no agent
\* among them, leave exactly the default marked, in memory and in storage:
\* setDefault, addConnection, removeConnection, reconnect and loadConnections
\* agree on it.
THEOREM DefaultMarked == ConnectionSpec => []DefaultAgrees
<1>1. ConnectionInv /\ MarksInv => DefaultAgrees
  <2> SUFFICES ASSUME MarksInv, InCall = {}, ~parted
               PROVE  Settled(configs, flagged, rowFlag, defaultId)
    BY DEF DefaultAgrees, Settled, Marks
  <2>1. \A k \in Callers : call[k] = NoCall
    BY NobodyCalls
  <2>2. QED
    BY <2>1, NoCallQuiet DEF MarksInv, Calm
<1>2. ConnectionSpec => []MarksInv
  BY MarksInitially, MarksInductive, ConnectionInvariant, PTL DEF ConnectionSpec
<1>3. QED
  BY <1>1, <1>2, ConnectionInvariant, PTL
=============================================================================
