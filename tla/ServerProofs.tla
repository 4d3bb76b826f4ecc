---------------------------- MODULE ServerProofs -----------------------------
(***************************************************************************)
(* What holds of every start and every run of the server, for any plugins     *)
(* directory and any number of connections.                                   *)
(***************************************************************************)
EXTENDS Server, Integers, FiniteSetTheorems, TLAPS

\* The first plugin with a hook is the first copy of eztik that was loaded.
FirstEztik ==
  /\ hooks = <<>> => \A i \in 1..Len(plugins) : plugins[i] \notin Eztiks
  /\ hooks # <<>> =>
       \E i \in 1..Len(plugins) :
         /\ plugins[i] = Head(hooks)
         /\ plugins[i] \in Eztiks
         /\ \A j \in 1..(i - 1) : plugins[j] \notin Eztiks

\* What the start has made by the time it reaches each phase.
Started == {"start", "running"}

Start ==
  /\ phase \in {"argv", "constructing"} => bound = "none"
  /\ phase \notin {"argv", "constructing", "failed", "exited"} /\ argv = "port" =>
       bound = "argv"
  /\ phase # "argv" /\ argv = "port" => portOption = "argv"
  /\ phase \in {"directory", "plugins", "export", "config"} \cup Started =>
       groups = Groups
  /\ phase \in {"plugins", "export"} => FirstEztik
  /\ phase \in {"argv", "constructing", "services", "directory"} =>
       plugins = <<>> /\ hooks = <<>>
  /\ phase \in {"argv", "constructing", "services", "directory", "plugins"} =>
       exported = 0 /\ commands["api_open"] = NoFile
  /\ phase = "export" =>
       \/ /\ commands["api_open"] = NoFile
          /\ \A i \in 1..exported : plugins[i] \notin Eztiks
       \/ hooks # <<>> /\ commands["api_open"] = Head(hooks)
  /\ phase \in {"config"} \cup Started =>
       commands["api_open"] = IF hooks = <<>> THEN NoFile ELSE Head(hooks)
  /\ phase \in Started => stored = (PluginOptionsParse /\ hooks # <<>>)

\* How the process ends.
End ==
  /\ phase \notin {"unwinding", "closing", "failed", "aborted", "crashed"} =>
       cause = "none"
  /\ phase = "running" => listening
  /\ listening => phase \in {"running", "unwinding", "closing", "crashed", "asserted"}
  /\ listening /\ phase \in {"unwinding", "closing"} => cause = "running"
  /\ cause = "running" =>
       /\ phase \in {"unwinding", "closing", "failed", "crashed"}
       /\ phase \in {"unwinding", "closing"} => listening
       /\ hooks # <<>>
       /\ Len(hooks) > 1 \/ ~PluginOptionsParse
  /\ phase = "failed" => cause \in {"none", "running"}
  /\ phase = "asserted" => opened
  /\ HasRun => phase \in {"running", "asserted"} \/ cause = "running"

\* A session is only ever opened with options that have values.
Opened ==
  /\ opened => hooks # <<>> /\ PluginOptionsParse
  /\ \A k \in Id : sessions[k] # 0 => opened

IsAccept(i) == ready[i].kind = "accepted"

\* One accept is under way or completed, for the last client made.
Listener ==
  phase = "running" =>
    /\ \A i, j \in 1..Len(ready) : IsAccept(i) /\ IsAccept(j) => i = j
    /\ accepting # 0 =>
         /\ accepting = lastId
         /\ lastId = arrived + 1
         /\ \A i \in 1..Len(ready) : ~IsAccept(i)
    /\ accepting = 0 =>
         /\ lastId = arrived
         /\ \E i \in 1..Len(ready) : IsAccept(i)
    /\ \A i \in 1..Len(ready) : IsAccept(i) => ready[i].client = lastId

\* A handler of a client's request or loss is the only one of that client.
Connected ==
  phase = "running" =>
    /\ \A c \in clients : c < lastId
    /\ \A i \in 1..Len(ready) : ~IsAccept(i) => ready[i].client \in clients
    /\ \A i, j \in 1..Len(ready) : ready[i].client = ready[j].client => i = j
    /\ \A k \in Id : sessions[k] # 0 =>
         sessions[k] \in clients /\ commands["api_open"] # NoFile

Keyed == \A k \in Id : sessions[k] # 0 => IdOf(sessions[k]) = k

\* Before it runs the listener has made nothing.
BeforeRunning ==
  {"argv", "constructing", "services", "directory", "plugins", "export", "config", "start"}

Idle ==
  phase \in BeforeRunning =>
    /\ ready = <<>> /\ clients = {} /\ accepting = 0 /\ lastId = 0 /\ arrived = 0
    /\ opened = FALSE
    /\ \A k \in Id : sessions[k] = 0

Types ==
  /\ phase \in Phase /\ cause \in Phase \cup {"none"}
  /\ argv \in Argv /\ portFree \in BOOLEAN /\ dirExists \in BOOLEAN
  /\ cfgFile \in CfgFile
  /\ bound \in {"none"} \cup Source /\ portOption \in Source
  /\ services \subseteq Service
  /\ groups \subseteq {"connection", "disconnection"}
  /\ hooks \in Seq(Plugin) /\ filesLeft \subseteq Files
  /\ plugins \in Seq(Plugin) /\ exported \in 0..Len(plugins)
  /\ commands \in [Command -> Plugin \cup {NoFile}]
  /\ stored \in BOOLEAN /\ listening \in BOOLEAN

Counts ==
  /\ accepting \in 0..(MaxClients + 1) /\ lastId \in 0..(MaxClients + 1)
  /\ ready \in Seq(Handler) /\ clients \subseteq Client
  /\ sessions \in [Id -> Client \cup {0}] /\ arrived \in 0..MaxClients
  /\ opened \in BOOLEAN

IInv ==
  /\ Types /\ Counts /\ Start /\ End /\ Opened
  /\ Listener /\ Connected /\ Keyed /\ Idle

-----------------------------------------------------------------------------
(* Sequences and the order of the plugins. *)

\* A handler is taken from the front and given at the end.
LEMMA TailFacts ==
  ASSUME NEW S, NEW s \in Seq(S), s # <<>>
  PROVE  /\ Head(s) \in S /\ 1 \in 1..Len(s) /\ Head(s) = s[1]
         /\ Tail(s) \in Seq(S) /\ Len(Tail(s)) \in Nat
         /\ \A i \in 1..Len(Tail(s)) : i + 1 \in 1..Len(s) /\ Tail(s)[i] = s[i + 1]
         /\ \A i \in 1..Len(s) : i = 1 \/ (i - 1 \in 1..Len(Tail(s)) /\ Tail(s)[i - 1] = s[i])
  OBVIOUS

LEMMA AppendFacts ==
  ASSUME NEW S, NEW s \in Seq(S), NEW x \in S
  PROVE  /\ Append(s, x) \in Seq(S) /\ Len(Append(s, x)) \in Nat
         /\ Len(s) + 1 \in 1..Len(Append(s, x)) /\ Append(s, x)[Len(s) + 1] = x
         /\ \A i \in 1..Len(s) : i \in 1..Len(Append(s, x)) /\ Append(s, x)[i] = s[i]
         /\ \A i \in 1..Len(Append(s, x)) : i \in 1..Len(s) \/ i = Len(s) + 1
  OBVIOUS

\* LoadPlugin keeps the order.
LEMMA FirstEztikLoads ==
  ASSUME IInv, FirstEztik, NEW f \in filesLeft,
         plugins' = IF Creates(f) THEN Append(plugins, f) ELSE plugins,
         hooks' = IF Creates(f) THEN hooks \o Hooking(f) ELSE hooks
  PROVE  FirstEztik'
<1>1. CASE ~Creates(f)
  BY <1>1 DEF FirstEztik
<1>2. CASE Creates(f) /\ f \notin Eztiks
  <2>1. hooks' = hooks /\ plugins' = Append(plugins, f)
    BY <1>2 DEF IInv, Types, Hooking
  <2>2. /\ Len(plugins) \in Nat /\ Len(plugins') = Len(plugins) + 1
        /\ plugins'[Len(plugins) + 1] = f
        /\ \A i \in 1..Len(plugins) : plugins'[i] = plugins[i]
    BY <2>1 DEF IInv, Types
  <2>3. ASSUME hooks = <<>>, NEW i \in 1..Len(plugins') PROVE plugins'[i] \notin Eztiks
    BY <1>2, <2>2, <2>3 DEF FirstEztik
  <2>4. ASSUME hooks # <<>>
        PROVE  \E i \in 1..Len(plugins') :
                 /\ plugins'[i] = Head(hooks) /\ plugins'[i] \in Eztiks
                 /\ \A j \in 1..(i - 1) : plugins'[j] \notin Eztiks
    <3>1. PICK i \in 1..Len(plugins) :
            /\ plugins[i] = Head(hooks) /\ plugins[i] \in Eztiks
            /\ \A j \in 1..(i - 1) : plugins[j] \notin Eztiks
      BY <2>4 DEF FirstEztik
    <3>2. i \in 1..Len(plugins') /\ \A j \in 1..(i - 1) : j \in 1..Len(plugins)
      BY <2>2
    <3>3. QED
      BY <2>2, <3>1, <3>2
  <2>5. QED
    BY <2>1, <2>3, <2>4 DEF FirstEztik
<1>3. CASE Creates(f) /\ f \in Eztiks
  <2>1. hooks' = Append(hooks, f) /\ plugins' = Append(plugins, f)
    BY <1>3 DEF IInv, Types, Hooking
  <2>2. CASE hooks = <<>>
    <3>1. hooks' = <<f>> /\ hooks' # <<>> /\ Head(hooks') = f
      BY <2>1, <2>2
    <3>2. /\ Len(plugins) + 1 \in 1..Len(plugins')
          /\ plugins'[Len(plugins) + 1] = f
          /\ \A j \in 1..Len(plugins) : plugins'[j] \notin Eztiks
      BY <2>1, <2>2 DEF FirstEztik, IInv, Types
    <3>3. \A j \in 1..((Len(plugins) + 1) - 1) : plugins'[j] \notin Eztiks
      BY <3>2 DEF IInv, Types
    <3>4. QED
      BY <1>3, <3>1, <3>2, <3>3 DEF FirstEztik
  <2>3. CASE hooks # <<>>
    <3>1. hooks' # <<>> /\ Head(hooks') = Head(hooks)
      BY <2>1, <2>3 DEF IInv, Types
    <3>2. PICK i \in 1..Len(plugins) :
            /\ plugins[i] = Head(hooks)
            /\ plugins[i] \in Eztiks
            /\ \A j \in 1..(i - 1) : plugins[j] \notin Eztiks
      BY <2>3 DEF FirstEztik
    <3>3. /\ i \in 1..Len(plugins')
          /\ plugins'[i] = plugins[i]
          /\ \A j \in 1..(i - 1) : plugins'[j] = plugins[j]
      BY <2>1, <3>2 DEF IInv, Types
    <3>4. QED
      BY <3>1, <3>2, <3>3 DEF FirstEztik
  <2>4. QED
    BY <2>2, <2>3
<1>4. QED
  BY <1>1, <1>2, <1>3

\* The first command that eztik exports is of the first copy with a hook.
LEMMA FirstEztikExports ==
  ASSUME Types, FirstEztik, exported < Len(plugins),
         \/ /\ commands["api_open"] = NoFile
            /\ \A i \in 1..exported : plugins[i] \notin Eztiks
         \/ hooks # <<>> /\ commands["api_open"] = Head(hooks),
         NEW c, c = AddCommand("api_open", plugins[exported + 1])
  PROVE  \/ c = NoFile /\ \A i \in 1..(exported + 1) : plugins[i] \notin Eztiks
         \/ hooks # <<>> /\ c = Head(hooks)
<1>1. c = IF plugins[exported + 1] \in Eztiks /\ commands["api_open"] = NoFile
          THEN plugins[exported + 1] ELSE commands["api_open"]
  BY DEF AddCommand, Exporters
<1>2. CASE commands["api_open"] = NoFile /\ plugins[exported + 1] \notin Eztiks
  BY <1>1, <1>2 DEF Types
<1>3. CASE commands["api_open"] = NoFile /\ plugins[exported + 1] \in Eztiks
  <2>1. exported + 1 \in 1..Len(plugins)
    BY DEF Types
  <2>2. CASE \A i \in 1..exported : plugins[i] \notin Eztiks
    BY <1>1, <1>3, <2>1, <2>2 DEF FirstEztik, Types
  <2>3. CASE hooks # <<>> /\ commands["api_open"] = Head(hooks)
    <3>1. Head(hooks) \in Plugin
      BY <2>3 DEF Types
    <3>2. QED
      BY <1>3, <2>3, <3>1, ServerAssumption DEF Plugin
  <2>4. QED
    BY <2>2, <2>3
<1>4. CASE commands["api_open"] # NoFile
  BY <1>1, <1>4
<1>5. QED
  BY <1>2, <1>3, <1>4

-----------------------------------------------------------------------------
(* The inductive invariant. *)

\* The steps of the start and of the way down, and those of the server that runs.
OtherStep ==
  \/ ParseArgv \/ Bind \/ LoadServices \/ OpenDirectory \/ LoadPlugin \/ PluginsLoaded
  \/ ExportCommands \/ CommandsExported \/ LoadConfig \/ DestroyPlugins \/ DestroyServer

ServingStep ==
  \/ Accepted \/ Request \/ OpenThrows \/ Lost \/ LostThrows
  \/ AcceptCompletes \/ ClientActs \/ SessionEnds \/ SessionAsserts

LEMMA EveryStep ==
  ASSUME [Next]_vars
  PROVE  OtherStep \/ Listen \/ ServingStep \/ UNCHANGED vars
  BY DEF Next, Program, OtherStep, ServingStep

\* The former serve nobody, and none of them leads to the running server.
LEMMA OtherSteps ==
  ASSUME OtherStep
  PROVE  /\ UNCHANGED <<accepting, lastId, ready, clients, sessions, arrived, opened>>
         /\ phase' # "running" /\ phase' # "asserted"
         /\ phase' \in BeforeRunning => phase \in BeforeRunning
<1>1. CASE ParseArgv
  BY <1>1 DEF ParseArgv, Enter, serving, BeforeRunning
<1>2. CASE Bind
  BY <1>2 DEF Bind, Enter, serving, BeforeRunning
<1>3. CASE LoadServices
  BY <1>3 DEF LoadServices, Enter, serving, BeforeRunning
<1>4. CASE OpenDirectory
  BY <1>4 DEF OpenDirectory, Enter, Throw, serving, BeforeRunning
<1>5. CASE LoadPlugin
  BY <1>5 DEF LoadPlugin, serving, BeforeRunning
<1>6. CASE PluginsLoaded
  BY <1>6 DEF PluginsLoaded, Enter, serving, BeforeRunning
<1>7. CASE ExportCommands
  BY <1>7 DEF ExportCommands, serving, BeforeRunning
<1>8. CASE CommandsExported
  BY <1>8 DEF CommandsExported, Enter, serving, BeforeRunning
<1>9. CASE LoadConfig
  BY <1>9 DEF LoadConfig, Enter, serving, BeforeRunning
<1>10. CASE DestroyPlugins
  BY <1>10 DEF DestroyPlugins, serving, BeforeRunning
<1>11. CASE DestroyServer
  BY <1>11 DEF DestroyServer, serving, BeforeRunning
<1>12. QED
  BY <1>1, <1>2, <1>3, <1>4, <1>5, <1>6, <1>7, <1>8, <1>9, <1>10, <1>11 DEF OtherStep

\* The latter keep all that the start has made, and go on, abort or throw.
LEMMA ServingSteps ==
  ASSUME IInv, ServingStep
  PROVE  /\ phase = "running" /\ UNCHANGED <<input, loaded, listening>>
         /\ \/ phase' = "running" /\ UNCHANGED cause
            \/ phase' = "asserted" /\ UNCHANGED cause /\ opened /\ UNCHANGED opened
            \/ /\ phase' = "unwinding" /\ cause' = "running"
               /\ hooks # <<>> /\ (Len(hooks) > 1 \/ ~PluginOptionsParse)
<1>1. CASE Accepted
  BY <1>1 DEF Accepted, Running, Return
<1>2. CASE Request
  BY <1>2 DEF Request, Running, Return
<1>3. CASE OpenThrows
  BY <1>3 DEF IInv, Start, Started, OpenThrows, Running, Opens, Throw
<1>4. CASE Lost
  BY <1>4 DEF Lost, Running, Return
<1>5. CASE LostThrows
  BY <1>5 DEF IInv, Types, LostThrows, Running, Throw
<1>6. CASE AcceptCompletes
  BY <1>6 DEF AcceptCompletes
<1>7. CASE ClientActs
  BY <1>7 DEF ClientActs
<1>8. CASE SessionEnds
  BY <1>8 DEF SessionEnds
<1>9. CASE SessionAsserts
  BY <1>9 DEF SessionAsserts
<1>10. QED
  BY <1>1, <1>2, <1>3, <1>4, <1>5, <1>6, <1>7, <1>8, <1>9 DEF ServingStep

\* Each conjunct is kept by every step.  Its type, first.
LEMMA TypesStep == IInv /\ [Next]_vars => Types'
<1>1. SUFFICES ASSUME IInv, [Next]_vars PROVE Types'
  OBVIOUS
<1>2. CASE ParseArgv
  BY <1>1, <1>2 DEF IInv, Types, Phase, ParseArgv, Enter, Source, input, loaded, serving
<1>3. CASE Bind
  BY <1>1, <1>3 DEF IInv, Types, Phase, Bind, Enter, Source, input, loaded, serving
<1>4. CASE LoadServices
  BY <1>1, <1>4 DEF IInv, Types, Phase, LoadServices, Enter, Groups, Service, input, loaded, serving
<1>5. CASE OpenDirectory
  BY <1>1, <1>5 DEF IInv, Types, Phase, OpenDirectory, Enter, Throw, input, loaded, serving
<1>6. CASE LoadPlugin
  <2>1. PICK f \in filesLeft :
          /\ filesLeft' = filesLeft \ {f}
          /\ plugins' = IF Creates(f) THEN Append(plugins, f) ELSE plugins
          /\ hooks' = IF Creates(f) THEN hooks \o Hooking(f) ELSE hooks
    BY <1>6 DEF LoadPlugin
  <2>2. Creates(f) => f \in Plugin
    BY <1>1, <2>1 DEF IInv, Types, Creates, Plugin
  <2>3. hooks' \in Seq(Plugin) /\ plugins' \in Seq(Plugin) /\ Len(plugins') >= Len(plugins)
    BY <1>1, <2>1, <2>2 DEF IInv, Types, Hooking
  <2>4. QED
    BY <1>1, <1>6, <2>1, <2>3 DEF IInv, Types, LoadPlugin, input, loaded, serving
<1>7. CASE PluginsLoaded
  BY <1>1, <1>7 DEF IInv, Types, Phase, PluginsLoaded, Enter, input, loaded, serving
<1>8. CASE ExportCommands
  <2>1. plugins[exported + 1] \in Plugin
    BY <1>1, <1>8 DEF IInv, Types, ExportCommands
  <2>2. commands' \in [Command -> Plugin \cup {NoFile}] /\ exported' \in 0..Len(plugins)
    BY <1>1, <1>8, <2>1 DEF IInv, Types, ExportCommands, AddCommand
  <2>3. QED
    BY <1>1, <1>8, <2>2 DEF IInv, Types, ExportCommands, input, loaded, serving
<1>9. CASE CommandsExported
  BY <1>1, <1>9 DEF IInv, Types, Phase, CommandsExported, Enter, input, loaded, serving
<1>10. CASE LoadConfig
  BY <1>1, <1>10 DEF IInv, Types, Phase, LoadConfig, Enter, PortAfter, Source, input, loaded, serving
<1>11. CASE DestroyPlugins
  BY <1>1, <1>11 DEF IInv, Types, Phase, DestroyPlugins, input, loaded, serving
<1>12. CASE DestroyServer
  BY <1>1, <1>12 DEF IInv, Types, Phase, DestroyServer, input, loaded, serving
<1>13. CASE Listen
  BY <1>1, <1>13 DEF IInv, Types, Phase, Listen, Enter, Throw, input, loaded
<1>14. CASE ServingStep
  <2>1. UNCHANGED <<input, loaded, listening>> /\ phase' \in Phase /\ cause' \in Phase \cup {"none"}
    BY <1>1, <1>14, ServingSteps DEF IInv, Types, Phase
  <2>2. UNCHANGED <<argv, portFree, dirExists, cfgFile, services, groups, hooks, filesLeft,
                    plugins, exported, commands, stored, bound, portOption, listening>>
    BY <2>1 DEF input, loaded
  <2>3. QED
    BY <1>1, <2>1, <2>2, Zenon DEF IInv, Types
<1>15. CASE UNCHANGED vars
  BY <1>1, <1>15 DEF IInv, Types, vars, input, loaded
<1>16. QED
  BY <1>1, <1>2, <1>3, <1>4, <1>5, <1>6, <1>7, <1>8, <1>9, <1>10, <1>11, <1>12, <1>13, <1>14, <1>15, EveryStep DEF OtherStep

\* The types of what serves the clients: that a client made has a number in Client
\* rests on the accept being for the one after those that arrived.
LEMMA CountsStep == IInv /\ [Next]_vars => Counts'
<1>1. SUFFICES ASSUME IInv, [Next]_vars PROVE Counts'
  OBVIOUS
<1>2. CASE OtherStep
  BY <1>1, <1>2, OtherSteps DEF IInv, Counts
<1>3. CASE Listen
  <2>1. accepting' \in 0..(MaxClients + 1) /\ lastId' \in 0..(MaxClients + 1)
    BY <1>1, <1>3, ServerAssumption DEF IInv, Counts, Idle, BeforeRunning, Listen, Enter, AcceptNext
  <2>2. UNCHANGED <<ready, clients, sessions, arrived, opened>>
    BY <1>3 DEF Listen
  <2>3. QED
    BY <1>1, <2>1, <2>2 DEF IInv, Counts
<1>4. CASE Accepted
  <2>1. ready \in Seq(Handler) /\ ready # <<>> /\ ready' = Tail(ready) /\ phase = "running"
    BY <1>1, <1>4 DEF IInv, Counts, Accepted, Running, Return
  <2>2. Head(ready) \in Handler /\ ready' \in Seq(Handler)
    BY <2>1, TailFacts
  <2>3. Head(ready).client \in Client
    BY <2>2 DEF Handler
  <2>4. Head(ready).kind = "accepted" /\ IsAccept(1) /\ 1 \in 1..Len(ready)
    BY <1>1, <1>4, <2>1, TailFacts DEF Accepted, Running, IsAccept
  <2>5. accepting = 0 /\ lastId = arrived
    BY <1>1, <2>1, <2>4 DEF IInv, Listener, IsAccept
  <2>6. accepting' \in 0..(MaxClients + 1) /\ lastId' \in 0..(MaxClients + 1)
    BY <1>1, <1>4, <2>5, ServerAssumption DEF IInv, Counts, Accepted, AcceptNext
  <2>7. clients' \subseteq Client
    BY <1>1, <1>4, <2>3 DEF IInv, Counts, Accepted
  <2>8. QED
    BY <1>1, <1>4, <2>2, <2>6, <2>7 DEF IInv, Counts, Accepted
<1>5. CASE Request
  <2>1. ready \in Seq(Handler) /\ ready # <<>> /\ ready' = Tail(ready) /\ phase = "running"
    BY <1>1, <1>5 DEF IInv, Counts, Request, Running, Return
  <2>2. Head(ready) \in Handler /\ ready' \in Seq(Handler)
    BY <2>1, TailFacts
  <2>3. Head(ready).client \in Client
    BY <2>2 DEF Handler
  <2>4. QED
    BY <1>1, <1>5, <2>1, <2>2, <2>3 DEF IInv, Counts, Request, Id, IdOf
<1>6. CASE OpenThrows
  <2>1. ready \in Seq(Handler) /\ ready # <<>> /\ ready' = Tail(ready) /\ phase = "running"
    BY <1>1, <1>6 DEF IInv, Counts, OpenThrows, Running, Return
  <2>2. ready' \in Seq(Handler)
    BY <2>1, TailFacts
  <2>3. QED
    BY <1>1, <1>6, <2>2 DEF IInv, Counts, OpenThrows
<1>7. CASE Lost
  <2>1. ready \in Seq(Handler) /\ ready # <<>> /\ ready' = Tail(ready) /\ phase = "running"
    BY <1>1, <1>7 DEF IInv, Counts, Lost, Running, Return
  <2>2. Head(ready) \in Handler /\ ready' \in Seq(Handler)
    BY <2>1, TailFacts
  <2>4. QED
    BY <1>1, <1>7, <2>1, <2>2 DEF IInv, Counts, Lost, FirstHook
<1>8. CASE LostThrows
  <2>1. ready \in Seq(Handler) /\ ready # <<>> /\ ready' = Tail(ready) /\ phase = "running"
    BY <1>1, <1>8 DEF IInv, Counts, LostThrows, Running, Return
  <2>2. Head(ready) \in Handler /\ ready' \in Seq(Handler)
    BY <2>1, TailFacts
  <2>4. QED
    BY <1>1, <1>8, <2>1, <2>2 DEF IInv, Counts, LostThrows, FirstHook
<1>9. CASE AcceptCompletes
  <2>1. phase = "running" /\ accepting # 0 /\ arrived < MaxClients /\ arrived' = arrived + 1
    BY <1>9 DEF AcceptCompletes
  <2>2. accepting \in Client
    BY <1>1, <2>1, ServerAssumption DEF IInv, Counts, Listener, Client
  <2>3. PICK ok \in BOOLEAN :
          ready' = Append(ready, [kind |-> "accepted", client |-> accepting, ok |-> ok])
    BY <1>9 DEF AcceptCompletes
  <2>4. [kind |-> "accepted", client |-> accepting, ok |-> ok] \in Handler
    BY <2>2 DEF Handler
  <2>5. ready' \in Seq(Handler)
    BY <1>1, <2>3, <2>4, AppendFacts DEF IInv, Counts
  <2>6. QED
    BY <1>1, <1>9, <2>1, <2>5, ServerAssumption DEF IInv, Counts, AcceptCompletes
<1>10. CASE ClientActs
  <2>1. PICK c \in clients, h \in Handler : h.client = c /\ ready' = Append(ready, h)
    BY <1>1, <1>10 DEF IInv, Counts, ClientActs, Handler
  <2>2. ready' \in Seq(Handler)
    BY <1>1, <2>1, AppendFacts DEF IInv, Counts
  <2>3. QED
    BY <1>1, <1>10, <2>2 DEF IInv, Counts, ClientActs
<1>11. CASE SessionEnds
  BY <1>1, <1>11 DEF IInv, Counts, SessionEnds
<1>12. CASE SessionAsserts
  <2>1. accepting' \in 0..(MaxClients + 1) /\ UNCHANGED <<lastId, arrived, opened>>
    BY <1>12, ServerAssumption DEF SessionAsserts
  <2>2. ready' \in Seq(Handler) /\ clients' \subseteq Client /\ sessions' \in [Id -> Client \cup {0}]
    BY <1>12 DEF SessionAsserts
  <2>3. QED
    BY <1>1, <2>1, <2>2 DEF IInv, Counts
<1>13. CASE UNCHANGED vars
  BY <1>1, <1>13 DEF IInv, Counts, vars, serving
<1>14. QED
  BY <1>1, <1>2, <1>3, <1>4, <1>5, <1>6, <1>7, <1>8, <1>9, <1>10, <1>11, <1>12, <1>13, EveryStep DEF ServingStep

\* What the start makes.
LEMMA StartStep == IInv /\ [Next]_vars => Start'
<1>1. SUFFICES ASSUME IInv, [Next]_vars PROVE Start'
  OBVIOUS
<1>2. CASE ParseArgv
  BY <1>1, <1>2 DEF IInv, Start, Types, ParseArgv, Enter, input, loaded, serving, Started, Groups, FirstEztik, PluginOptionsParse, OwnOptionsParse
<1>3. CASE Bind
  BY <1>1, <1>3 DEF IInv, Start, Types, Bind, Enter, input, loaded, serving, Started, Groups, FirstEztik, PluginOptionsParse, OwnOptionsParse
<1>4. CASE LoadServices
  BY <1>1, <1>4 DEF IInv, Start, Types, LoadServices, Enter, Groups, input, loaded, serving, Started, Groups, FirstEztik, PluginOptionsParse, OwnOptionsParse
<1>5. CASE OpenDirectory
  BY <1>1, <1>5 DEF IInv, Start, Types, OpenDirectory, Enter, Throw, input, loaded, serving, Started, Groups, FirstEztik, PluginOptionsParse, OwnOptionsParse
<1>6. CASE LoadPlugin
  <2>1. PICK f \in filesLeft :
          /\ filesLeft' = filesLeft \ {f}
          /\ plugins' = IF Creates(f) THEN Append(plugins, f) ELSE plugins
          /\ hooks' = IF Creates(f) THEN hooks \o Hooking(f) ELSE hooks
    BY <1>6 DEF LoadPlugin
  <2>2. FirstEztik
    BY <1>1, <1>6 DEF IInv, Start, LoadPlugin
  <2>3. FirstEztik'
    BY <1>1, <2>1, <2>2, FirstEztikLoads
  <2>4. QED
    BY <1>1, <1>6, <2>3 DEF IInv, Start, Types, Started, LoadPlugin, input, loaded, serving
<1>7. CASE PluginsLoaded
  BY <1>1, <1>7 DEF IInv, Start, Types, PluginsLoaded, Enter, input, loaded, serving, Started, Groups, FirstEztik, PluginOptionsParse, OwnOptionsParse
<1>8. CASE ExportCommands
  <2>1. FirstEztik /\ FirstEztik'
    BY <1>1, <1>8 DEF IInv, Start, ExportCommands, FirstEztik
  <2>2. commands["api_open"]' = AddCommand("api_open", plugins[exported + 1])
    BY <1>1, <1>8 DEF IInv, Types, ExportCommands, Command
  <2>3. \/ /\ commands["api_open"]' = NoFile
           /\ \A i \in 1..(exported + 1) : plugins[i] \notin Eztiks
        \/ hooks # <<>> /\ commands["api_open"]' = Head(hooks)
    BY <1>1, <1>8, <2>1, <2>2, FirstEztikExports DEF IInv, Start, Types, ExportCommands
  <2>4. QED
    BY <1>1, <1>8, <2>1, <2>3 DEF IInv, Start, Types, Started, ExportCommands, input, loaded, serving
<1>9. CASE CommandsExported
  BY <1>1, <1>9 DEF IInv, Start, Types, CommandsExported, Enter, input, loaded, serving, Started, Groups, FirstEztik, PluginOptionsParse, OwnOptionsParse
<1>10. CASE LoadConfig
  BY <1>1, <1>10 DEF IInv, Start, Types, LoadConfig, Enter, PortAfter, input, loaded, serving, Started, Groups, FirstEztik, PluginOptionsParse, OwnOptionsParse
<1>11. CASE DestroyPlugins
  BY <1>1, <1>11 DEF IInv, Start, Types, DestroyPlugins, input, loaded, serving, Started, Groups, FirstEztik, PluginOptionsParse, OwnOptionsParse
<1>12. CASE DestroyServer
  BY <1>1, <1>12 DEF IInv, Start, Types, DestroyServer, input, loaded, serving, Started, Groups, FirstEztik, PluginOptionsParse, OwnOptionsParse
<1>13. CASE Listen
  BY <1>1, <1>13 DEF IInv, Start, Types, Listen, Enter, Throw, AcceptNext, input, loaded, serving, Started, Groups, FirstEztik, PluginOptionsParse, OwnOptionsParse
<1>14. CASE ServingStep
  BY <1>1, <1>14, ServingSteps DEF IInv, Start, Started, PluginOptionsParse, OwnOptionsParse, input, loaded
<1>15. CASE UNCHANGED vars
  BY <1>1, <1>15 DEF IInv, Start, Types, vars, input, loaded, serving, Started, Groups, FirstEztik, PluginOptionsParse, OwnOptionsParse
<1>16. QED
  BY <1>1, <1>2, <1>3, <1>4, <1>5, <1>6, <1>7, <1>8, <1>9, <1>10, <1>11, <1>12, <1>13, <1>14, <1>15, EveryStep DEF OtherStep

\* How the process ends.
LEMMA EndStep == IInv /\ [Next]_vars => End'
<1>1. SUFFICES ASSUME IInv, [Next]_vars PROVE End'
  OBVIOUS
<1>2. CASE ParseArgv
  BY <1>1, <1>2, OtherSteps DEF IInv, End, Idle, BeforeRunning, OtherStep, ParseArgv, Enter, input, loaded, PluginOptionsParse, OwnOptionsParse, HasRun
<1>3. CASE Bind
  BY <1>1, <1>3, OtherSteps DEF IInv, End, Idle, BeforeRunning, OtherStep, Bind, Enter, input, loaded, PluginOptionsParse, OwnOptionsParse, HasRun
<1>4. CASE LoadServices
  BY <1>1, <1>4, OtherSteps DEF IInv, End, Idle, BeforeRunning, OtherStep, LoadServices, Enter, input, loaded, PluginOptionsParse, OwnOptionsParse, HasRun
<1>5. CASE OpenDirectory
  BY <1>1, <1>5, OtherSteps DEF IInv, End, Idle, BeforeRunning, OtherStep, OpenDirectory, Enter, Throw, input, loaded, PluginOptionsParse, OwnOptionsParse, HasRun
<1>6. CASE LoadPlugin
  BY <1>1, <1>6, OtherSteps DEF IInv, End, Idle, BeforeRunning, OtherStep, LoadPlugin, input, loaded, PluginOptionsParse, OwnOptionsParse, HasRun
<1>7. CASE PluginsLoaded
  BY <1>1, <1>7, OtherSteps DEF IInv, End, Idle, BeforeRunning, OtherStep, PluginsLoaded, Enter, input, loaded, PluginOptionsParse, OwnOptionsParse, HasRun
<1>8. CASE ExportCommands
  BY <1>1, <1>8, OtherSteps DEF IInv, End, Idle, BeforeRunning, OtherStep, ExportCommands, input, loaded, PluginOptionsParse, OwnOptionsParse, HasRun
<1>9. CASE CommandsExported
  BY <1>1, <1>9, OtherSteps DEF IInv, End, Idle, BeforeRunning, OtherStep, CommandsExported, Enter, input, loaded, PluginOptionsParse, OwnOptionsParse, HasRun
<1>10. CASE LoadConfig
  BY <1>1, <1>10, OtherSteps DEF IInv, End, Idle, BeforeRunning, OtherStep, LoadConfig, Enter, input, loaded, PluginOptionsParse, OwnOptionsParse, HasRun
<1>11. CASE DestroyPlugins
  BY <1>1, <1>11, OtherSteps DEF IInv, End, Idle, BeforeRunning, OtherStep, DestroyPlugins, input, loaded, PluginOptionsParse, OwnOptionsParse, HasRun
<1>12. CASE DestroyServer
  <2>1. phase = "closing" /\ UNCHANGED <<cause, hooks, cfgFile, lastId, opened>>
    BY <1>12 DEF DestroyServer, input, loaded, serving
  <2>2. CASE listening
    BY <1>1, <1>12, <2>1, <2>2 DEF IInv, End, DestroyServer, PluginOptionsParse, OwnOptionsParse, HasRun
  <2>3. CASE ~listening
    <3>1. cause # "running" /\ ~HasRun
      BY <1>1, <2>1, <2>3 DEF IInv, End
    <3>2. phase' = "aborted" /\ UNCHANGED listening
      BY <1>12, <2>3 DEF DestroyServer
    <3>3. QED
      BY <1>1, <2>1, <2>3, <3>1, <3>2 DEF End, HasRun
  <2>4. QED
    BY <2>2, <2>3
<1>13. CASE Listen
  BY <1>1, <1>13 DEF IInv, End, Idle, BeforeRunning, Listen, Enter, Throw, PluginOptionsParse, OwnOptionsParse, HasRun
<1>14. CASE ServingStep
  <2>1. phase = "running" /\ UNCHANGED <<hooks, cfgFile, listening>> /\ listening /\ cause = "none"
    BY <1>1, <1>14, ServingSteps DEF IInv, End, input, loaded
  <2>2. PluginOptionsParse' = PluginOptionsParse
    BY <2>1 DEF PluginOptionsParse, OwnOptionsParse
  <2>3. QED
    BY <1>1, <1>14, <2>1, <2>2, ServingSteps DEF End
<1>15. CASE UNCHANGED vars
  BY <1>1, <1>15 DEF IInv, End, vars, input, loaded, serving, PluginOptionsParse, OwnOptionsParse, HasRun
<1>16. QED
  BY <1>1, <1>2, <1>3, <1>4, <1>5, <1>6, <1>7, <1>8, <1>9, <1>10, <1>11, <1>12, <1>13, <1>14, <1>15, EveryStep DEF OtherStep

\* What an opened session shows.
LEMMA OpenedStep == IInv /\ [Next]_vars => Opened'
<1>1. SUFFICES ASSUME IInv, [Next]_vars PROVE Opened'
  OBVIOUS
<1>2. CASE OtherStep
  <2>1. UNCHANGED <<sessions, opened>>
    BY <1>2, OtherSteps
  <2>2. ASSUME opened PROVE UNCHANGED <<hooks, cfgFile>>
    <3>1. phase \notin BeforeRunning
      BY <1>1, <2>2 DEF IInv, Idle
    <3>2. QED
      BY <1>2, <3>1 DEF OtherStep, BeforeRunning, ParseArgv, Enter, Bind, LoadServices, OpenDirectory, Throw, LoadPlugin, PluginsLoaded, ExportCommands, CommandsExported, LoadConfig, DestroyPlugins, DestroyServer, input, loaded
  <2>3. QED
    BY <1>1, <2>1, <2>2 DEF IInv, Opened, PluginOptionsParse, OwnOptionsParse
<1>3. CASE Listen
  BY <1>1, <1>3 DEF IInv, Opened, Listen, input, loaded, PluginOptionsParse, OwnOptionsParse
<1>4. CASE Request
  <2>1. phase = "running" /\ UNCHANGED <<hooks, cfgFile, stored>>
    BY <1>1, <1>4 DEF Request, Running, input, loaded
  <2>2. PluginOptionsParse' = PluginOptionsParse
    BY <2>1 DEF PluginOptionsParse, OwnOptionsParse
  <2>3. stored => hooks # <<>> /\ PluginOptionsParse
    BY <1>1, <2>1 DEF IInv, Start, Started
  <2>4. opened' = (opened \/ Opens)
    BY <1>4 DEF Request
  <2>5. opened' => hooks # <<>> /\ PluginOptionsParse
    <3>1. CASE opened
      BY <1>1, <3>1 DEF IInv, Opened
    <3>2. CASE Opens
      <4>1. ready \in Seq(Handler) /\ ready # <<>>
        BY <1>1, <1>4 DEF IInv, Counts, Request, Running
      <4>2. Head(ready).client \in Client
        BY <4>1, TailFacts DEF Handler
      <4>3. IdOf(Head(ready).client) \in Id
        BY <4>2, ServerAssumption DEF Client, IdOf, Id
      <4>4. stored \/ opened
        BY <1>1, <1>4, <3>2, <4>3 DEF IInv, Opened, Request
      <4>5. QED
        BY <1>1, <2>3, <4>4 DEF IInv, Opened
    <3>3. QED
      BY <2>4, <3>1, <3>2
  <2>6. \A k \in Id : sessions'[k] # 0 => opened'
    BY <1>1, <1>4, <2>4 DEF IInv, Counts, Opened, Request
  <2>7. QED
    BY <2>1, <2>2, <2>5, <2>6 DEF Opened
<1>5. CASE Accepted
  BY <1>1, <1>5 DEF IInv, Counts, Opened, Accepted, input, loaded, PluginOptionsParse, OwnOptionsParse
<1>6. CASE OpenThrows
  BY <1>1, <1>6 DEF IInv, Counts, Opened, OpenThrows, input, loaded, PluginOptionsParse, OwnOptionsParse
<1>7. CASE Lost
  BY <1>1, <1>7 DEF IInv, Counts, Opened, Lost, FirstHook, input, loaded, PluginOptionsParse, OwnOptionsParse
<1>8. CASE LostThrows
  BY <1>1, <1>8 DEF IInv, Counts, Opened, LostThrows, FirstHook, input, loaded, PluginOptionsParse, OwnOptionsParse
<1>9. CASE AcceptCompletes
  BY <1>1, <1>9 DEF IInv, Counts, Opened, AcceptCompletes, input, loaded, PluginOptionsParse, OwnOptionsParse
<1>10. CASE ClientActs
  BY <1>1, <1>10 DEF IInv, Counts, Opened, ClientActs, input, loaded, PluginOptionsParse, OwnOptionsParse
<1>11. CASE SessionEnds
  BY <1>1, <1>11 DEF IInv, Counts, Opened, SessionEnds, input, loaded, PluginOptionsParse, OwnOptionsParse
<1>12. CASE SessionAsserts
  BY <1>1, <1>12 DEF IInv, Counts, Opened, SessionAsserts, input, loaded, PluginOptionsParse, OwnOptionsParse
<1>13. CASE UNCHANGED vars
  BY <1>1, <1>13 DEF IInv, Opened, vars, input, loaded, serving, PluginOptionsParse, OwnOptionsParse
<1>14. QED
  BY <1>1, <1>2, <1>3, <1>4, <1>5, <1>6, <1>7, <1>8, <1>9, <1>10, <1>11, <1>12, <1>13, EveryStep DEF ServingStep

\* A handler of a client leaves the accept alone.
LEMMA TakesNoAccept ==
  ASSUME IInv, phase = "running", ready \in Seq(Handler), ready # <<>>, ready' = Tail(ready),
         Head(ready).kind # "accepted", UNCHANGED <<accepting, lastId, arrived>>
  PROVE  Listener'
<1>1. /\ Head(ready) = ready[1] /\ Len(ready') \in Nat /\ 1 \in 1..Len(ready)
      /\ \A i \in 1..Len(ready') : i + 1 \in 1..Len(ready) /\ ready'[i] = ready[i + 1]
      /\ \A i \in 1..Len(ready) :
           i = 1 \/ (i - 1 \in 1..Len(ready') /\ ready'[i - 1] = ready[i])
  BY TailFacts
<1>2. \A i, j \in 1..Len(ready') : IsAccept(i)' /\ IsAccept(j)' => i = j
  BY <1>1 DEF IInv, Listener, IsAccept
<1>3. accepting # 0 => accepting = lastId /\ lastId = arrived + 1
                       /\ \A i \in 1..Len(ready') : ~IsAccept(i)'
  BY <1>1 DEF IInv, Listener, IsAccept
<1>4. ASSUME accepting = 0
      PROVE  lastId = arrived /\ \E i \in 1..Len(ready') : IsAccept(i)'
  <2>1. lastId = arrived
    BY <1>4 DEF IInv, Listener
  <2>2. PICK i \in 1..Len(ready) : IsAccept(i)
    BY <1>4 DEF IInv, Listener
  <2>3. i # 1
    BY <1>1, <2>2 DEF IsAccept
  <2>4. i - 1 \in 1..Len(ready') /\ ready'[i - 1] = ready[i]
    BY <1>1, <2>3
  <2>5. QED
    BY <2>1, <2>2, <2>4 DEF IsAccept
<1>5. \A i \in 1..Len(ready') : IsAccept(i)' => ready'[i].client = lastId
  BY <1>1 DEF IInv, Listener, IsAccept
<1>6. QED
  BY <1>2, <1>3, <1>4, <1>5 DEF Listener

\* The accept.
LEMMA ListenerStep == IInv /\ [Next]_vars => Listener'
<1>1. SUFFICES ASSUME IInv, [Next]_vars PROVE Listener'
  OBVIOUS
<1>2. CASE OtherStep
  BY <1>2, OtherSteps DEF Listener
<1>3. CASE Listen
  BY <1>1, <1>3 DEF IInv, Counts, Types, Listener, Idle, BeforeRunning, IsAccept, Listen, Enter, Throw, AcceptNext, input, loaded, serving, Client, Handler
<1>4. CASE Accepted
  BY <1>1, <1>4 DEF IInv, Counts, Types, Listener, Idle, IsAccept, Accepted, Running, AcceptNext, Return, input, loaded, serving, Client, Handler
<1>5. CASE Request
  <2>1. ready \in Seq(Handler) /\ ready # <<>> /\ ready' = Tail(ready) /\ phase = "running"
    BY <1>1, <1>5 DEF IInv, Counts, Request, Running, Return
  <2>2. Head(ready).kind # "accepted" /\ UNCHANGED <<accepting, lastId, arrived>>
    BY <1>5 DEF Request, Running
  <2>3. QED
    BY <1>1, <2>1, <2>2, TakesNoAccept
<1>6. CASE OpenThrows
  BY <1>1, <1>6 DEF IInv, Counts, Types, Listener, Idle, IsAccept, OpenThrows, Running, Throw, Opens, input, loaded, serving, Client, Handler
<1>7. CASE Lost
  <2>1. ready \in Seq(Handler) /\ ready # <<>> /\ ready' = Tail(ready) /\ phase = "running"
    BY <1>1, <1>7 DEF IInv, Counts, Lost, Running, Return
  <2>2. Head(ready).kind # "accepted" /\ UNCHANGED <<accepting, lastId, arrived>>
    BY <1>7 DEF Lost, Running
  <2>3. QED
    BY <1>1, <2>1, <2>2, TakesNoAccept
<1>8. CASE LostThrows
  BY <1>1, <1>8 DEF IInv, Counts, Types, Listener, Idle, IsAccept, LostThrows, Running, Throw, FirstHook, input, loaded, serving, Client, Handler
<1>9. CASE AcceptCompletes
  BY <1>1, <1>9 DEF IInv, Counts, Types, Listener, Idle, IsAccept, AcceptCompletes, input, loaded, serving, Client, Handler
<1>10. CASE ClientActs
  <2>1. PICK c \in clients, h \in Handler :
          /\ h.client = c /\ h.kind # "accepted" /\ ready' = Append(ready, h)
          /\ \A i \in 1..Len(ready) : ready[i].client # c
    BY <1>1, <1>10 DEF IInv, Counts, ClientActs, Handler
  <2>2. /\ ready' \in Seq(Handler) /\ Len(ready') \in Nat
        /\ Len(ready) + 1 \in 1..Len(ready') /\ ready'[Len(ready) + 1] = h
        /\ \A i \in 1..Len(ready) : i \in 1..Len(ready') /\ ready'[i] = ready[i]
        /\ \A i \in 1..Len(ready') : i \in 1..Len(ready) \/ i = Len(ready) + 1
    BY <1>1, <2>1, AppendFacts DEF IInv, Counts
  <2>3. UNCHANGED <<phase, accepting, lastId, arrived, clients, sessions, commands>>
    BY <1>10 DEF ClientActs, loaded
  <2>4. QED
    BY <1>1, <2>1, <2>2, <2>3 DEF IInv, Listener, IsAccept
<1>11. CASE SessionEnds
  BY <1>1, <1>11 DEF IInv, Listener, IsAccept, SessionEnds
<1>12. CASE SessionAsserts
  BY <1>1, <1>12 DEF Listener, SessionAsserts
<1>13. CASE UNCHANGED vars
  BY <1>1, <1>13 DEF IInv, Listener, IsAccept, vars, serving
<1>14. QED
  BY <1>1, <1>2, <1>3, <1>4, <1>5, <1>6, <1>7, <1>8, <1>9, <1>10, <1>11, <1>12, <1>13, EveryStep DEF ServingStep

\* Clients, their handlers and their sessions.
LEMMA ConnectedStep == IInv /\ [Next]_vars => Connected'
<1>1. SUFFICES ASSUME IInv, [Next]_vars PROVE Connected'
  OBVIOUS
<1>2. CASE OtherStep
  BY <1>2, OtherSteps DEF Connected
<1>3. CASE Listen
  BY <1>1, <1>3 DEF IInv, Counts, Types, Listener, Connected, Idle, BeforeRunning, IsAccept, Listen, Enter, Throw, AcceptNext, input, loaded, serving, Client, Handler
<1>4. CASE Accepted
  <2>1. /\ ready \in Seq(Handler) /\ ready # <<>> /\ ready' = Tail(ready) /\ phase = "running"
        /\ lastId \in Nat /\ lastId' = lastId + 1
        /\ UNCHANGED <<sessions, commands>>
        /\ clients \subseteq clients' /\ clients' \subseteq clients \cup {Head(ready).client}
    BY <1>1, <1>4, ServerAssumption DEF IInv, Counts, Accepted, Running, AcceptNext, Return, loaded
  <2>2. /\ ready' \in Seq(Handler) /\ Head(ready) = ready[1] /\ Len(ready') \in Nat
        /\ 1 \in 1..Len(ready)
        /\ \A i \in 1..Len(ready') : i + 1 \in 1..Len(ready) /\ ready'[i] = ready[i + 1]
    BY <2>1, TailFacts
  <2>3. ready[1].client = lastId
    BY <1>1, <1>4, <2>1, <2>2 DEF IInv, Listener, IsAccept, Accepted, Running
  <2>4. \A c \in clients' : c < lastId'
    <3>1. \A c \in clients : c \in Nat /\ c < lastId
      BY <1>1, <2>1 DEF IInv, Counts, Connected, Client
    <3>2. QED
      BY <2>1, <2>2, <2>3, <3>1
  <2>5. \A i \in 1..Len(ready') : ~IsAccept(i)' => ready'[i].client \in clients'
    BY <1>1, <2>1, <2>2 DEF IInv, Connected, IsAccept
  <2>6. \A i, j \in 1..Len(ready') : ready'[i].client = ready'[j].client => i = j
    BY <1>1, <2>1, <2>2 DEF IInv, Connected
  <2>7. \A k \in Id : sessions'[k] # 0 =>
          sessions'[k] \in clients' /\ commands'["api_open"] # NoFile
    BY <1>1, <2>1 DEF IInv, Connected
  <2>8. QED
    BY <2>4, <2>5, <2>6, <2>7 DEF Connected
<1>5. CASE Request
  <2>1. ready \in Seq(Handler) /\ ready # <<>> /\ ready' = Tail(ready) /\ phase = "running"
    BY <1>1, <1>5 DEF IInv, Counts, Request, Running, Return
  <2>2. /\ ready' \in Seq(Handler) /\ Head(ready) = ready[1] /\ Len(ready') \in Nat
        /\ 1 \in 1..Len(ready)
        /\ \A i \in 1..Len(ready') : i + 1 \in 1..Len(ready) /\ ready'[i] = ready[i + 1]
        /\ \A i \in 1..Len(ready) :
             i = 1 \/ (i - 1 \in 1..Len(ready') /\ ready'[i - 1] = ready[i])
    BY <2>1, TailFacts
  <2>3. ready[1].kind # "accepted" /\ ready[1].client \in clients
    BY <1>1, <1>5, <2>1, <2>2 DEF IInv, Connected, IsAccept, Request, Running
  <2>4. UNCHANGED <<lastId, clients, commands>>
    BY <1>5 DEF Request, loaded
  <2>5. \A k \in Id : sessions'[k] # 0 => sessions'[k] \in clients /\ commands["api_open"] # NoFile
    BY <1>1, <1>5, <2>1, <2>2, <2>3 DEF IInv, Counts, Connected, Request, Opens
  <2>6. /\ \A i \in 1..Len(ready') : ~IsAccept(i)' => ready'[i].client \in clients
        /\ \A i, j \in 1..Len(ready') : ready'[i].client = ready'[j].client => i = j
    BY <1>1, <2>1, <2>2 DEF IInv, Connected, IsAccept
  <2>7. QED
    BY <1>1, <2>1, <2>4, <2>5, <2>6 DEF IInv, Connected
<1>6. CASE OpenThrows
  BY <1>1, <1>6 DEF IInv, Counts, Types, Listener, Connected, Idle, IsAccept, OpenThrows, Running, Throw, Opens, input, loaded, serving, Client, Handler
<1>7. CASE Lost
  <2>1. ready \in Seq(Handler) /\ ready # <<>> /\ ready' = Tail(ready) /\ phase = "running"
    BY <1>1, <1>7 DEF IInv, Counts, Lost, Running, Return
  <2>2. /\ ready' \in Seq(Handler) /\ Head(ready) = ready[1] /\ Len(ready') \in Nat
        /\ 1 \in 1..Len(ready)
        /\ \A i \in 1..Len(ready') : i + 1 \in 1..Len(ready) /\ ready'[i] = ready[i + 1]
        /\ \A i \in 1..Len(ready) :
             i = 1 \/ (i - 1 \in 1..Len(ready') /\ ready'[i - 1] = ready[i])
    BY <2>1, TailFacts
  <2>4. UNCHANGED <<lastId, commands>> /\ clients' = clients \ {ready[1].client}
    BY <1>7, <2>2 DEF Lost, loaded
  <2>5. ASSUME NEW k \in Id, sessions'[k] # 0
        PROVE  sessions'[k] \in clients' /\ commands["api_open"] # NoFile
    <3>1. sessions[k] # 0 /\ sessions'[k] = sessions[k]
      BY <1>1, <1>7, <2>5 DEF IInv, Counts, Lost, FirstHook
    <3>2. sessions[k] \in clients /\ commands["api_open"] # NoFile
      BY <1>1, <2>1, <3>1 DEF IInv, Connected
    <3>3. hooks # <<>> /\ Head(hooks) = commands["api_open"]
      BY <1>1, <2>1, <3>2 DEF IInv, Start, Started
    <3>4. k # IdOf(ready[1].client)
      BY <1>1, <1>7, <2>2, <2>5, <3>1, <3>3 DEF IInv, Counts, Lost, FirstHook
    <3>5. sessions[k] # ready[1].client
      BY <1>1, <3>1, <3>4 DEF IInv, Keyed
    <3>6. QED
      BY <2>4, <3>1, <3>2, <3>5
  <2>6. /\ \A i \in 1..Len(ready') : ~IsAccept(i)' => ready'[i].client \in clients'
        /\ \A i, j \in 1..Len(ready') : ready'[i].client = ready'[j].client => i = j
    BY <1>1, <2>1, <2>2, <2>4 DEF IInv, Connected, IsAccept
  <2>7. QED
    BY <1>1, <2>1, <2>4, <2>5, <2>6 DEF IInv, Connected
<1>8. CASE LostThrows
  BY <1>1, <1>8 DEF IInv, Counts, Types, Listener, Connected, Idle, IsAccept, LostThrows, Running, Throw, FirstHook, input, loaded, serving, Client, Handler
<1>9. CASE AcceptCompletes
  BY <1>1, <1>9 DEF IInv, Counts, Types, Listener, Connected, Idle, IsAccept, AcceptCompletes, input, loaded, serving, Client, Handler
<1>10. CASE ClientActs
  <2>1. PICK c \in clients, h \in Handler :
          /\ h.client = c /\ h.kind # "accepted" /\ ready' = Append(ready, h)
          /\ \A i \in 1..Len(ready) : ready[i].client # c
    BY <1>1, <1>10 DEF IInv, Counts, ClientActs, Handler
  <2>2. /\ ready' \in Seq(Handler) /\ Len(ready') \in Nat
        /\ Len(ready) + 1 \in 1..Len(ready') /\ ready'[Len(ready) + 1] = h
        /\ \A i \in 1..Len(ready) : i \in 1..Len(ready') /\ ready'[i] = ready[i]
        /\ \A i \in 1..Len(ready') : i \in 1..Len(ready) \/ i = Len(ready) + 1
    BY <1>1, <2>1, AppendFacts DEF IInv, Counts
  <2>3. UNCHANGED <<phase, accepting, lastId, arrived, clients, sessions, commands>>
    BY <1>10 DEF ClientActs, loaded
  <2>4. QED
    BY <1>1, <2>1, <2>2, <2>3 DEF IInv, Connected, IsAccept
<1>11. CASE SessionEnds
  BY <1>1, <1>11 DEF IInv, Counts, Connected, IsAccept, SessionEnds, loaded
<1>12. CASE SessionAsserts
  BY <1>1, <1>12 DEF Connected, SessionAsserts
<1>13. CASE UNCHANGED vars
  BY <1>1, <1>13 DEF IInv, Connected, IsAccept, loaded, vars, serving
<1>14. QED
  BY <1>1, <1>2, <1>3, <1>4, <1>5, <1>6, <1>7, <1>8, <1>9, <1>10, <1>11, <1>12, <1>13, EveryStep DEF ServingStep

\* The sessions' keys.
LEMMA KeyedStep == IInv /\ [Next]_vars => Keyed'
<1>1. SUFFICES ASSUME IInv, [Next]_vars PROVE Keyed'
  OBVIOUS
<1>2. CASE OtherStep
  BY <1>1, <1>2, OtherSteps DEF IInv, Keyed
<1>3. CASE Listen
  BY <1>1, <1>3 DEF IInv, Keyed, Listen
<1>4. CASE Accepted
  BY <1>1, <1>4 DEF IInv, Counts, Keyed, Accepted
<1>5. CASE Request
  BY <1>1, <1>5 DEF IInv, Counts, Keyed, Request
<1>6. CASE OpenThrows
  BY <1>1, <1>6 DEF IInv, Counts, Keyed, OpenThrows
<1>7. CASE Lost
  BY <1>1, <1>7 DEF IInv, Counts, Keyed, Lost, FirstHook
<1>8. CASE LostThrows
  BY <1>1, <1>8 DEF IInv, Counts, Keyed, LostThrows, FirstHook
<1>9. CASE AcceptCompletes
  BY <1>1, <1>9 DEF IInv, Counts, Keyed, AcceptCompletes
<1>10. CASE ClientActs
  BY <1>1, <1>10 DEF IInv, Counts, Keyed, ClientActs
<1>11. CASE SessionEnds
  BY <1>1, <1>11 DEF IInv, Counts, Keyed, SessionEnds
<1>12. CASE SessionAsserts
  BY <1>1, <1>12 DEF IInv, Counts, Keyed, SessionAsserts
<1>13. CASE UNCHANGED vars
  BY <1>1, <1>13 DEF IInv, Keyed, vars, serving
<1>14. QED
  BY <1>1, <1>2, <1>3, <1>4, <1>5, <1>6, <1>7, <1>8, <1>9, <1>10, <1>11, <1>12, <1>13, EveryStep DEF ServingStep

\* Nothing happens before the start is over.
LEMMA IdleStep == IInv /\ [Next]_vars => Idle'
<1>1. SUFFICES ASSUME IInv, [Next]_vars PROVE Idle'
  OBVIOUS
<1>2. CASE OtherStep
  BY <1>1, <1>2, OtherSteps DEF IInv, Idle
<1>3. CASE Listen
  BY <1>3 DEF Idle, BeforeRunning, Listen, Enter, Throw
<1>4. CASE ServingStep
  BY <1>1, <1>4, ServingSteps DEF Idle, BeforeRunning
<1>5. CASE UNCHANGED vars
  BY <1>1, <1>5 DEF IInv, Idle, vars, serving
<1>6. QED
  BY <1>1, <1>2, <1>3, <1>4, <1>5, EveryStep

\* It holds of a process that has just been started.
LEMMA InitIInv == Init => IInv
<1>1. SUFFICES ASSUME Init PROVE IInv
  OBVIOUS
<1>2. Types
  <2>1. hooks \in Seq(Plugin) /\ plugins \in Seq(Plugin) /\ exported \in 0..Len(plugins)
    BY <1>1 DEF Init
  <2>2. commands \in [Command -> Plugin \cup {NoFile}]
    BY <1>1 DEF Init
  <2>3. QED
    BY <1>1, <2>1, <2>2 DEF Init, Types, Phase, Argv, Source
<1>3. Idle /\ Keyed
  BY <1>1 DEF Init, Idle, BeforeRunning, Keyed
<1>4. Counts
  <2>1. accepting \in 0..(MaxClients + 1) /\ lastId \in 0..(MaxClients + 1) /\ arrived \in 0..MaxClients
    BY <1>1, ServerAssumption DEF Init
  <2>2. ready \in Seq(Handler) /\ clients \subseteq Client
    BY <1>1 DEF Init
  <2>3. sessions \in [Id -> Client \cup {0}]
    BY <1>1 DEF Init
  <2>4. opened \in BOOLEAN
    BY <1>1, Zenon DEF Init
  <2>5. QED
    BY <2>1, <2>2, <2>3, <2>4 DEF Counts
<1>5. Start /\ End /\ Opened /\ Listener /\ Connected
  BY <1>1 DEF Init, Start, Started, End, HasRun, Opened, Listener, Connected, Command
<1>6. QED
  BY <1>2, <1>3, <1>4, <1>5 DEF IInv

\* Every conjunct of the invariant is kept, whatever step is taken.
THEOREM Invariance == Spec => []IInv
<1>1. IInv /\ [Next]_vars => IInv'
  BY TypesStep, CountsStep, StartStep, EndStep, OpenedStep, ListenerStep, ConnectedStep,
     KeyedStep, IdleStep DEF IInv
<1>2. QED
  BY InitIInv, <1>1, PTL DEF Spec

\* Whatever the plugins directory, the command line and the configuration file
\* are and whoever connects, every variable keeps its type.
THEOREM TypeCorrectness == Spec => []TypeOK
<1>1. IInv => TypeOK
  BY DEF IInv, Types, Counts, TypeOK
<1>2. QED
  BY Invariance, <1>1, PTL

\* tcp_listener::accept_next: the server that runs has exactly one accept under
\* way or completed, however many clients come and go.
THEOREM OneAccept == Spec => []OneAcceptWhileRunning
<1>1. ASSUME IInv PROVE OneAcceptWhileRunning
  <2>1. SUFFICES ASSUME phase = "running" PROVE listening /\ Accepts = 1
    BY DEF OneAcceptWhileRunning
  <2>2. listening
    BY <1>1, <2>1 DEF IInv, End
  <2> DEFINE A == {i \in 1..Len(ready) : ready[i].kind = "accepted"}
  <2>3. CASE accepting # 0
    <3>1. A = {}
      BY <1>1, <2>1, <2>3 DEF IInv, Listener, IsAccept
    <3>2. Cardinality(A) = 0
      BY <3>1, FS_EmptySet
    <3>3. QED
      BY <2>2, <2>3, <3>2 DEF Accepts
  <2>4. CASE accepting = 0
    <3>1. PICK i \in 1..Len(ready) : A = {i}
      BY <1>1, <2>1, <2>4 DEF IInv, Listener, IsAccept
    <3>2. Cardinality(A) = 1
      BY <3>1, FS_Singleton
    <3>3. QED
      BY <2>2, <2>4, <3>2 DEF Accepts
  <2>5. QED
    BY <2>3, <2>4
<1>2. QED
  BY Invariance, <1>1, PTL

\* hooks_manager::run_hooks and server::add_command: the copy of eztik whose
\* commands are served is the one whose hook is run, for any directory.
THEOREM ServingHook == Spec => []ServingHookIsFirst
<1>1. IInv => ServingHookIsFirst
  BY DEF IInv, Start, Started, Groups, ServingHookIsFirst
<1>2. QED
  BY Invariance, <1>1, PTL

\* sessions_service's hook: no session outlives its client's connection while the
\* server runs.
THEOREM SessionsGoWithTheirClients == Spec => []SessionsOfTheConnected
<1>1. IInv => SessionsOfTheConnected
  BY DEF IInv, Connected, SessionsOfTheConnected
<1>2. QED
  BY Invariance, <1>1, PTL

\* Two numbers with one remainder are a whole modulus apart.
LEMMA SameId ==
  ASSUME NEW n \in Nat \ {0}, NEW a \in Nat, NEW b \in Nat, a % n = b % n, a < b
  PROVE  b >= a + n
<1>1. a = n * (a \div n) + (a % n) /\ b = n * (b \div n) + (b % n)
  BY SMT
<1>2. a \div n \in Int /\ b \div n \in Int
  BY SMT
<1>3. n * (a \div n) < n * (b \div n)
  BY <1>1, <1>2, SMT
<1>4. (a \div n) < (b \div n)
  BY <1>2, <1>3, SMT
<1>5. n * (b \div n) >= n * ((a \div n) + 1)
  BY <1>2, <1>4, SMT
<1>6. QED
  BY <1>1, <1>2, <1>5, SMT

\* tcp_listener::current_client_id_: the session a client finds under its id is
\* its own unless the ids have wrapped since its owner was accepted.
THEOREM SharedIds == Spec => []SharesOnlyAfterWrap
<1>1. ASSUME IInv PROVE SharesOnlyAfterWrap
  <2>1. SUFFICES ASSUME NEW c \in clients, NEW d, d = sessions[IdOf(c)], d \notin {0, c}
                 PROVE  c >= d + IdLimit \/ d >= c + IdLimit
    BY DEF SharesOnlyAfterWrap
  <2>2. c \in Client /\ IdOf(c) \in Id
    BY <1>1, ServerAssumption DEF IInv, Counts, Client, IdOf, Id
  <2>3. d \in Client /\ IdOf(d) = IdOf(c)
    BY <1>1, <2>1, <2>2 DEF IInv, Counts, Keyed
  <2>4. (c - 1) \in Nat /\ (d - 1) \in Nat /\ (c - 1) % IdLimit = (d - 1) % IdLimit
    BY <2>2, <2>3 DEF Client, IdOf
  <2>5. (c - 1) < (d - 1) \/ (d - 1) < (c - 1)
    BY <2>1, <2>2, <2>3 DEF Client
  <2>6. CASE (c - 1) < (d - 1)
    <3>1. d - 1 >= (c - 1) + IdLimit
      BY <2>4, <2>6, SameId, ServerAssumption
    <3>2. QED
      BY <2>2, <2>3, <3>1, ServerAssumption DEF Client
  <2>7. CASE (d - 1) < (c - 1)
    <3>1. c - 1 >= (d - 1) + IdLimit
      BY <2>4, <2>7, SameId, ServerAssumption
    <3>2. QED
      BY <2>2, <2>3, <3>1, ServerAssumption DEF Client
  <2>8. QED
    BY <2>5, <2>6, <2>7
<1>2. QED
  BY Invariance, <1>1, PTL

\* io_context::run and the assertions of eztik: whatever the plugins directory and
\* the configuration file are, a server that has run ended through an assertion of
\* an eztik whose options had values, or through an exception of eztik's copies or
\* of one whose options had none.
THEOREM HowAServerEnds == Spec => []EndsOnlyThroughEztik
<1>1. ASSUME IInv PROVE EndsOnlyThroughEztik
  <2>1. SUFFICES ASSUME HasRun, phase # "running" PROVE EndsOnlyThroughEztik
    BY DEF EndsOnlyThroughEztik
  <2>2. CASE phase = "asserted"
    <3>1. hooks # <<>> /\ PluginOptionsParse
      BY <1>1, <2>2 DEF IInv, End, Opened
    <3>2. Len(hooks) \in Nat
      BY <1>1 DEF IInv, Types
    <3>3. QED
      BY <2>2, <3>1, <3>2 DEF EndsOnlyThroughEztik, PluginOptionsParse, OwnOptionsParse
  <2>3. CASE phase # "asserted"
    <3>1. cause = "running"
      BY <1>1, <2>1, <2>3 DEF IInv, End
    <3>2. /\ phase \in {"unwinding", "closing", "failed", "crashed"}
          /\ hooks # <<>> /\ (Len(hooks) > 1 \/ ~PluginOptionsParse)
      BY <1>1, <3>1 DEF IInv, End
    <3>3. ~(Len(hooks) > 1) => Len(hooks) < 2
      BY <1>1 DEF IInv, Types
    <3>4. QED
      BY <3>1, <3>2, <3>3 DEF EndsOnlyThroughEztik, PluginOptionsParse, OwnOptionsParse
  <2>4. QED
    BY <2>2, <2>3
<1>2. QED
  BY Invariance, <1>1, PTL

\* main's handler: an exception of a start that got past the constructor is never
\* reported.
THEOREM WhatMainReports == Spec => []ReportsOnlyARunningServer
<1>1. IInv => ReportsOnlyARunningServer
  BY DEF IInv, End, ReportsOnlyARunningServer
<1>2. QED
  BY Invariance, <1>1, PTL

\* boost::program_options::store: the command line's port stays.
THEOREM CommandLineKept == Spec => []CommandLineWins
<1>1. IInv => CommandLineWins
  BY DEF IInv, Start, CommandLineWins
<1>2. QED
  BY Invariance, <1>1, PTL

=============================================================================
