-------------------------- MODULE ConnectionPoller --------------------------
(***************************************************************************)
(* MultiConnectionPoller: a service that polls every connected database of *)
(* the registry and keeps state for each.                                  *)
(***************************************************************************)
EXTENDS AgentGateway

VARIABLES
  polling,    \* a tick is running
  polls,      \* connections whose poll it still awaits
  known,      \* knownConnections
  held        \* connections the service keeps state for

pollerVars == <<polling, polls, known, held>>

connectionVars == <<registryVars, gatewayVars, pollerVars>>

PollerInit ==
  /\ polling = FALSE
  /\ polls = {}
  /\ known = {}
  /\ held = {}

\* Mutant of KnownAfter: only the connections that are polled are remembered.
KnownAfterConnected == {i \in configs : Connected(i)}

KnownAfter == configs

\* A tick begins unless the last one still runs: the state of the known
\* connections that are gone is dropped, and the connected ones are polled, or
\* all if the service asks for that.
PollTick ==
  /\ ~polling
  /\ polling' = TRUE
  /\ held' = held \ (known \ configs)
  /\ known' = KnownAfter
  /\ polls' \in {{i \in configs : Connected(i)}, configs}
  /\ UNCHANGED <<registryVars, gatewayVars>>

\* A poll ends: with its state kept, or with an error that is logged.
PollEnds(i) ==
  /\ i \in polls
  /\ polls' = polls \ {i}
  /\ held' \in {held, held \union {i}}
  /\ UNCHANGED <<polling, known, registryVars, gatewayVars>>

PollTickEnds ==
  /\ polling
  /\ polls = {}
  /\ polling' = FALSE
  /\ UNCHANGED <<polls, known, held, registryVars, gatewayVars>>

RegistryCalls(k) ==
  \/ CallStep(k)
  \/ \E i \in Links : \/ RemoveBegins(k, i) \/ RemoveAtOnce(k, i)
                      \/ \E d \in BOOLEAN : AddConnection(k, i, d)
  \/ \E i \in Ids : SetDefault(k, i) \/ Reconnect(k, i)

ConnectionInit == RegistryInit /\ GatewayInit /\ PollerInit

RegistryNext(K) ==
  /\ (\E k \in K : RegistryCalls(k)) \/ (\E i \in Links : AddRefused(i))
  /\ UNCHANGED <<gatewayVars, pollerVars>>

LinkNext ==
  (\E a \in Adapters : LinkDrops(a) \/ LinkRecovers(a)) /\ UNCHANGED <<gatewayVars, pollerVars>>

GatewayNext(K) ==
  /\ \/ \E w \in Sockets : RegisterAgent(w) \/ AskToClose(w) \/ SocketCloses(w)
                            \/ \E g \in Agents : OnConnection(w, g)
     \/ \E k \in K, g \in Agents : RemoveAgent(k, g)
  /\ UNCHANGED pollerVars

\* The process dies and starts again.
RestartAll ==
  /\ GatewayRestart
  /\ polling' = FALSE
  /\ polls' = {}
  /\ known' = {}
  /\ held' = {}

PollerNext == PollTick \/ PollTickEnds \/ \E i \in Ids : PollEnds(i)

\* Everything at once, with any number of callers.
ConnectionNext ==
  \/ RegistryNext(Callers) \/ GatewayNext(Callers) \/ LinkNext \/ PollerNext \/ RestartAll

ConnectionSpec == ConnectionInit /\ [][ConnectionNext]_connectionVars

------------------------------------------------------------------------------
\* The state a service keeps for a connection does not outlive it: once the
\* connection is gone a later tick drops the state, even if the connection was
\* disconnected, or its last poll still ran, when it was removed.
StateReleased ==
  \A i \in Ids : []<>(i \in held => i \in configs)
=============================================================================
