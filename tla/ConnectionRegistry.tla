------------------------- MODULE ConnectionRegistry -------------------------
(***************************************************************************)
(* ConnectionRegistry: the maps `configs` and `connections`, the default   *)
(* connection, and their rows in storage.                                  *)
(*                                                                         *)
(* A call of the API is a chain of awaits; `step` names the one it is in.  *)
(* A step is the awaited call together with the code up to the next await. *)
(* An adapter is a client of its own, with its own connection to the       *)
(* database: it may lose it and find it again until it is disconnected,    *)
(* listed in the maps or not.                                              *)
(***************************************************************************)
EXTENDS Naturals, FiniteSets

CONSTANTS
  Links,              \* ids of connections made through the API, one per call
  EnvDefault,         \* the id of the connection the environment configures
  Agents,             \* ids of agent connections, one per token
  Sockets,            \* WebSocket connections of agents, one per connection made
  Adapters,           \* bound: the direct adapters that exist at a time
  Callers,            \* API calls that may be in flight together
  Absent,
  MaxRegistryFaults   \* failing storage calls and restarts, over the whole behaviour

ASSUME RegistryAssumption ==
  /\ EnvDefault \in Links
  /\ Links \intersect Agents = {}
  /\ Sockets \intersect Adapters = {}
  /\ Absent \notin Links \union Agents \union Sockets \union Adapters
  /\ Adapters # {}
  /\ MaxRegistryFaults \in Nat

Ids == Links \union Agents

VARIABLES
  rows,           \* connections in storage
  rowFlag,        \* those whose row says isDefault
  configs,        \* ids of the configs map
  flagged,        \* those whose config says isDefault
  connections,    \* the adapter of each id: a direct one or an agent's socket
  adapter,        \* per direct adapter: "open", "lost" (it retries) or "closed"
  defaultId,
  made,           \* links whose addConnection call has been made
  call,           \* per caller: the API call in flight
  registryFaults,
  parted,         \* history: overlapping calls, a failure or an agent may have
                  \* parted the default from its marks
  loose           \* history: adapters that overlapping calls handled, or that were
                  \* let go while not connected or with a disconnect that failed

adapterVars == <<connections, adapter, loose>>
registryVars ==
  <<rows, rowFlag, configs, flagged, adapterVars, defaultId, made, call, registryFaults, parted>>

\* `new` is the adapter a call has created, `quit` the one it disconnects.
NoCall == [op |-> "none", step |-> "none", id |-> Absent, old |-> Absent, mark |-> FALSE,
           new |-> Absent, quit |-> Absent]

\* After a start with no saved connection: the environment's one, if DB_HOST is
\* set and reachable, or none.
RegistryInit ==
  /\ rows \in {{}, {EnvDefault}}
  /\ rowFlag = rows
  /\ configs = rows
  /\ flagged = rows
  /\ LET first == CHOOSE a \in Adapters : TRUE
     IN /\ connections = [i \in Ids |-> IF i \in rows THEN first ELSE Absent]
        /\ adapter = [a \in Adapters |-> IF rows # {} /\ a = first THEN "open" ELSE "closed"]
  /\ defaultId = IF rows = {} THEN Absent ELSE EnvDefault
  /\ made = {EnvDefault}
  /\ call = [k \in Callers |-> NoCall]
  /\ registryFaults = 0
  /\ parted = FALSE
  /\ loose = {}

InCall == {k \in Callers : call[k].op # "none"}

RegistryFault ==
  /\ registryFaults < MaxRegistryFaults
  /\ registryFaults' = registryFaults + 1

\* Calls that change the default, or may have to.
TouchesDefault(c) == c.op \in {"default", "remove"} \/ c.mark

Begins(k, c) ==
  /\ call[k] = NoCall
  /\ call' = [call EXCEPT ![k] = c]

Overlaps(k, c) ==
  \E j \in InCall \ {k} : TouchesDefault(c) \/ TouchesDefault(call[j])

Ends(k) == call' = [call EXCEPT ![k] = NoCall]

\* isConnected of an id's adapter; an agent's has been while it is listed.
Connected(i) ==
  \/ connections[i] \in Sockets
  \/ connections[i] \in Adapters /\ adapter[connections[i]] = "open"

\* createAdapter: a closed one that nobody holds stands for a new one.
FreeAdapters ==
  {a \in Adapters : adapter[a] = "closed"}
    \ ({connections[i] : i \in Ids} \union {call[k].new : k \in Callers} \union {call[k].quit : k \in Callers})
NewAdapter == CHOOSE a \in FreeAdapters : TRUE

\* An adapter is disconnected; or is let go although it is not.
Disconnect(a) ==
  /\ adapter' = [b \in Adapters |-> IF b = a THEN "closed" ELSE adapter[b]]
  /\ loose' = loose \ {a}
Live(S) == {a \in Adapters \intersect S : adapter[a] # "closed"}
LetGo(a) == loose' = loose \union Live({a})

\* The call has an adapter in its hands, by itself or to replace or remove the
\* one in the map.
Handles(c) == c.step \in {"save", "connect", "disconnect", "swap"}
HandledOf(id) == {k \in InCall : Handles(call[k]) /\ call[k].id = id}

\* The adapters of a connection that another call is handling already.
Contested(id) ==
  IF HandledOf(id) = {} THEN {}
  ELSE Live({connections[id]} \union UNION {{call[k].new, call[k].quit} : k \in HandledOf(id)})

------------------------------------------------------------------------------
(* setDefault, called by itself, by addConnection and by removeConnection.  *)

\* Up to the first await: the old default loses its mark in memory, or there is
\* none to unmark and the new one gets it.
SetDefaultBegins(k, c, cfgs, flags) ==
  IF defaultId \notin {Absent, c.id} /\ defaultId \in cfgs
  THEN /\ flagged' = flags \ {defaultId}
       /\ call' = [call EXCEPT ![k] = [c EXCEPT !.step = "unmark", !.old = defaultId]]
  ELSE /\ flagged' = flags \union {c.id}
       /\ call' = [call EXCEPT ![k] = [c EXCEPT !.step = "mark"]]

SetDefault(k, id) ==
  /\ call[k] = NoCall
  /\ id \in configs
  /\ LET c == [NoCall EXCEPT !.op = "default", !.id = id]
     IN SetDefaultBegins(k, c, configs, flagged) /\ parted' = (parted \/ Overlaps(k, c))
  /\ UNCHANGED <<rows, rowFlag, configs, adapterVars, defaultId, made, registryFaults>>

\* Mutant of Unmark: the old default's row keeps its mark.
UnmarkMemoryOnly(k) ==
  /\ call[k].step = "unmark"
  /\ call' = [call EXCEPT ![k].step = "mark"]
  /\ configs' = configs \union {call[k].id}
  /\ flagged' = flagged \union {call[k].id}
  /\ UNCHANGED <<rows, rowFlag, adapterVars, defaultId, made, registryFaults, parted>>

\* The old default's row is unmarked, and the new one marked in memory: its
\* config is written back even if it has been removed meanwhile.
Unmark(k) ==
  /\ call[k].step = "unmark"
  /\ rowFlag' = rowFlag \ {call[k].old}
  /\ call' = [call EXCEPT ![k].step = "mark"]
  /\ configs' = configs \union {call[k].id}
  /\ flagged' = flagged \union {call[k].id}
  /\ UNCHANGED <<rows, adapterVars, defaultId, made, registryFaults, parted>>

\* The new default's row is marked.
Mark(k) ==
  /\ call[k].step = "mark"
  /\ rowFlag' = rowFlag \union (rows \intersect {call[k].id})
  /\ defaultId' = call[k].id
  /\ Ends(k)
  /\ UNCHANGED <<rows, configs, flagged, adapterVars, made, registryFaults, parted>>

\* Either write fails: the call ends there, and addConnection disconnects the
\* adapter it has already listed, or fails to.
MarkFails(k) ==
  /\ call[k].step \in {"unmark", "mark"}
  /\ RegistryFault
  /\ Disconnect(call[k].new) \/ UNCHANGED <<adapter, loose>>
  /\ parted' = TRUE
  /\ Ends(k)
  /\ UNCHANGED <<rows, rowFlag, configs, flagged, connections, defaultId, made>>

------------------------------------------------------------------------------
\* addConnection: nothing is kept before the adapter has connected.
AddConnection(k, id, asDefault) ==
  /\ id \notin made
  /\ FreeAdapters # {}
  /\ LET c == [NoCall EXCEPT !.op = "add", !.step = "save", !.id = id, !.mark = asDefault,
                             !.new = NewAdapter]
     IN Begins(k, c) /\ parted' = (parted \/ Overlaps(k, c))
  /\ adapter' = [adapter EXCEPT ![NewAdapter] = "open"]
  /\ made' = made \union {id}
  /\ UNCHANGED <<rows, rowFlag, configs, flagged, connections, loose, defaultId, registryFaults>>

\* The connect fails: the call throws, and its adapter goes on trying.
AddRefused(id) ==
  /\ id \notin made
  /\ FreeAdapters # {}
  /\ adapter' = [adapter EXCEPT ![NewAdapter] = "lost"]
  /\ loose' = loose \union {NewAdapter}
  /\ made' = made \union {id}
  /\ UNCHANGED <<rows, rowFlag, configs, flagged, connections, defaultId, call, registryFaults, parted>>

AddSaves(k) ==
  /\ call[k].step = "save"
  /\ rows' = rows \union {call[k].id}
  /\ configs' = configs \union {call[k].id}
  /\ connections' = [connections EXCEPT ![call[k].id] = call[k].new]
  /\ IF call[k].mark
     THEN SetDefaultBegins(k, call[k], configs', flagged \ {call[k].id})
     ELSE flagged' = flagged \ {call[k].id} /\ Ends(k)
  /\ UNCHANGED <<adapter, loose, rowFlag, defaultId, made, registryFaults, parted>>

\* Mutant of AddFails: the adapter is not disconnected.
AddFailsLeaks(k) ==
  /\ call[k].step = "save"
  /\ RegistryFault
  /\ Ends(k)
  /\ UNCHANGED <<rows, rowFlag, configs, flagged, adapterVars, defaultId, made, parted>>

\* The row cannot be saved: the adapter is disconnected "to prevent leaks"; an
\* error of that is swallowed.
AddFails(k) ==
  /\ call[k].step = "save"
  /\ RegistryFault
  /\ Disconnect(call[k].new) \/ (LetGo(call[k].new) /\ UNCHANGED adapter)
  /\ Ends(k)
  /\ UNCHANGED <<rows, rowFlag, configs, flagged, connections, defaultId, made, parted>>

------------------------------------------------------------------------------
\* The id leaves the maps, whatever adapter they hold for it by now.
Forget(id) ==
  /\ configs' = configs \ {id}
  /\ flagged' = flagged \ {id}
  /\ connections' = [connections EXCEPT ![id] = Absent]

\* removeConnection, of any id but the environment's.  A connected direct
\* adapter is disconnected first.
RemoveBegins(k, id) ==
  /\ id # EnvDefault
  /\ id \in Links /\ Connected(id)
  /\ LET c == [NoCall EXCEPT !.op = "remove", !.step = "disconnect", !.id = id, !.quit = connections[id]]
     IN Begins(k, c) /\ parted' = (parted \/ Overlaps(k, c))
  /\ loose' = loose \union Contested(id)
  /\ UNCHANGED <<rows, rowFlag, configs, flagged, connections, adapter, defaultId, made, registryFaults>>

\* With nothing to disconnect, or an agent's adapter whose disconnect only asks
\* the socket to close, the maps are cleared at once.  An adapter that has lost
\* its database is not disconnected.
RemoveAtOnce(k, id) ==
  /\ id \in made \union configs
  /\ id # EnvDefault
  /\ id \in Agents \/ ~Connected(id)
  /\ LET c == [NoCall EXCEPT !.op = "remove", !.step = "delete", !.id = id]
     IN Begins(k, c) /\ parted' = (parted \/ Overlaps(k, c))
  /\ Forget(id)
  /\ LetGo(connections[id])
  /\ UNCHANGED <<rows, rowFlag, adapter, defaultId, made, registryFaults>>

RemoveDisconnects(k) ==
  /\ call[k].step = "disconnect"
  /\ Disconnect(call[k].quit)
  /\ Forget(call[k].id)
  /\ call' = [call EXCEPT ![k] = [@ EXCEPT !.step = "delete", !.quit = Absent]]
  /\ UNCHANGED <<rows, rowFlag, defaultId, made, registryFaults, parted>>

\* disconnect throws: the call ends before it has touched the maps.
RemoveDisconnectFails(k) ==
  /\ call[k].step = "disconnect"
  /\ RegistryFault
  /\ Disconnect(call[k].quit) \/ UNCHANGED <<adapter, loose>>
  /\ Ends(k)
  /\ UNCHANGED <<rows, rowFlag, configs, flagged, connections, defaultId, made, parted>>

\* The row is deleted; if it was the default's, the first remaining connection
\* becomes the default, or there is none.
RemoveDeletes(k) ==
  /\ call[k].step = "delete"
  /\ rows' = rows \ {call[k].id}
  /\ rowFlag' = rowFlag \ {call[k].id}
  /\ \/ /\ defaultId # call[k].id
        /\ Ends(k)
        /\ UNCHANGED <<flagged, defaultId>>
     \/ /\ defaultId = call[k].id
        /\ configs = {}
        /\ defaultId' = Absent
        /\ Ends(k)
        /\ UNCHANGED flagged
     \/ /\ defaultId = call[k].id
        /\ \E next \in configs : SetDefaultBegins(k, [call[k] EXCEPT !.id = next], configs, flagged)
        /\ UNCHANGED defaultId
  /\ UNCHANGED <<configs, adapterVars, made, registryFaults, parted>>

RemoveFails(k) ==
  /\ call[k].step = "delete"
  /\ RegistryFault
  /\ parted' = TRUE
  /\ Ends(k)
  /\ UNCHANGED <<rows, rowFlag, configs, flagged, adapterVars, defaultId, made>>

------------------------------------------------------------------------------
\* reconnect keeps the config it read, its mark included, for the write after
\* the awaits.  An agent's address cannot be connected to.
Reconnect(k, id) ==
  /\ id \in configs
  /\ FreeAdapters # {}
  /\ LET c == [NoCall EXCEPT !.op = "reconnect", !.step = "connect", !.id = id,
                             !.old = IF id \in flagged THEN id ELSE Absent, !.new = NewAdapter]
     IN Begins(k, c) /\ parted' = (parted \/ Overlaps(k, c))
  /\ adapter' = [adapter EXCEPT ![NewAdapter] = "lost"]
  /\ loose' = loose \union Contested(id) \union (IF HandledOf(id) = {} THEN {} ELSE {NewAdapter})
  /\ UNCHANGED <<rows, rowFlag, configs, flagged, connections, defaultId, made, registryFaults>>

RestoreConfig(c) ==
  /\ configs' = configs \union {c.id}
  /\ flagged' = (flagged \ {c.id}) \union ({c.old} \ {Absent})

\* The new adapter is connected; a connected old one is disconnected first.
ReconnectConnects(k) ==
  /\ call[k].step = "connect"
  /\ call[k].id \in Links /\ Connected(call[k].id)
  /\ call' = [call EXCEPT ![k] = [@ EXCEPT !.step = "swap", !.quit = connections[call[k].id]]]
  /\ adapter' = [adapter EXCEPT ![call[k].new] = "open"]
  /\ UNCHANGED <<rows, rowFlag, configs, flagged, connections, loose, defaultId, made, registryFaults, parted>>

\* It takes the place of whatever the map holds: after that disconnect, whose
\* error is only logged, or at once when the old one was not connected.
ReconnectSwaps(k) ==
  /\ \/ /\ call[k].step = "swap"
        /\ \/ Disconnect(call[k].quit) /\ UNCHANGED registryFaults
           \/ LetGo(call[k].quit) /\ RegistryFault /\ UNCHANGED adapter
     \/ /\ call[k].step = "connect" /\ call[k].id \in Links /\ ~Connected(call[k].id)
        /\ adapter' = [adapter EXCEPT ![call[k].new] = "open"]
        /\ LetGo(connections[call[k].id])
        /\ UNCHANGED registryFaults
  /\ connections' = [connections EXCEPT ![call[k].id] = call[k].new]
  /\ RestoreConfig(call[k])
  /\ Ends(k)
  /\ UNCHANGED <<rows, rowFlag, defaultId, made, parted>>

\* The connect fails: the call throws, and its adapter goes on trying.
ReconnectFails(k) ==
  /\ call[k].step = "connect"
  /\ RestoreConfig(call[k])
  /\ LetGo(call[k].new)
  /\ Ends(k)
  /\ UNCHANGED <<rows, rowFlag, connections, adapter, defaultId, made, registryFaults, parted>>

------------------------------------------------------------------------------
\* An adapter loses its database and finds it again.
LinkDrops(a) ==
  /\ adapter[a] = "open"
  /\ adapter' = [adapter EXCEPT ![a] = "lost"]
  /\ UNCHANGED <<rows, rowFlag, configs, flagged, connections, loose, defaultId, made, call, registryFaults, parted>>

LinkRecovers(a) ==
  /\ adapter[a] = "lost"
  /\ adapter' = [adapter EXCEPT ![a] = "open"]
  /\ UNCHANGED <<rows, rowFlag, configs, flagged, connections, loose, defaultId, made, call, registryFaults, parted>>

\* Adapters are alike: any choice stands for all.
OneOf(S) == IF S = {} THEN {} ELSE {CHOOSE x \in S : TRUE}

\* The next start gives every row an adapter: connected, or a fresh one beside
\* the one that failed to connect and goes on trying.
RestartAdapters ==
  \E lost \in SUBSET rows' :
    /\ rows = {} => lost = {}
    /\ \E f \in OneOf({g \in [rows' -> Adapters] : \A i, j \in rows' : g[i] = g[j] => i = j}) :
         LET used == {f[i] : i \in rows'}
         IN \E n \in 0..Cardinality(lost) :
              \E failed \in OneOf({F \in SUBSET (Adapters \ used) : Cardinality(F) = n}) :
                /\ connections' = [i \in Ids |-> IF i \in rows' THEN f[i] ELSE Absent]
                /\ adapter' = [a \in Adapters |->
                                 IF a \in failed \union {f[i] : i \in lost} THEN "lost"
                                 ELSE IF a \in used THEN "open" ELSE "closed"]
                /\ loose' = failed

\* loadConnections on the next start.  With nothing saved the environment's
\* connection is made, if DB_HOST is set and reachable; else every row gets an
\* adapter, and the default is a marked row, or the first one, which is marked.
Restart ==
  /\ RegistryFault
  /\ rows' \in (IF rows = {} THEN {{}, {EnvDefault}} ELSE {rows})
  /\ configs' = rows'
  /\ RestartAdapters
  /\ IF rowFlag = {}
     THEN \/ rows' = {} /\ defaultId' = Absent /\ UNCHANGED rowFlag
          \/ \E first \in rows' : defaultId' = first /\ rowFlag' = {first}
     ELSE defaultId' \in rowFlag /\ UNCHANGED rowFlag
  /\ flagged' = rowFlag'
  /\ parted' = (Cardinality(rowFlag) > 1)
  /\ call' = [k \in Callers |-> NoCall]
  /\ UNCHANGED made

CallStep(k) ==
  \/ Unmark(k) \/ Mark(k) \/ MarkFails(k) \/ AddSaves(k) \/ AddFails(k)
  \/ RemoveDisconnects(k) \/ RemoveDisconnectFails(k) \/ RemoveDeletes(k) \/ RemoveFails(k)
  \/ ReconnectConnects(k) \/ ReconnectSwaps(k) \/ ReconnectFails(k)

------------------------------------------------------------------------------
\* No adapter is left behind: one that has not been disconnected belongs to a
\* listed connection, where it can be seen and removed, or is in the hands of a
\* call, unless calls on one connection overlapped, its disconnect failed, or it
\* was not connected when it was let go (addConnection, removeConnection,
\* reconnect, loadConnections).
OpenIsListed ==
  \A a \in Adapters : adapter[a] # "closed" =>
    \/ a \in loose
    \/ \E i \in configs : connections[i] = a
    \/ \E k \in InCall : Handles(call[k]) /\ a \in {call[k].new, call[k].quit}

\* With no call in flight, and unless overlapping calls, a failed write or an
\* agent's coming and going parted them, exactly the default connection is
\* marked, in memory and in storage: the next start chooses the same one.
DefaultAgrees ==
  InCall = {} /\ ~parted =>
    /\ defaultId \in configs \union {Absent}
    /\ \A i \in Links : /\ i \in flagged <=> i = defaultId
                        /\ i \in rowFlag <=> i = defaultId
=============================================================================
