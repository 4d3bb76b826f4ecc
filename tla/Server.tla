------------------------------- MODULE Server -------------------------------
(***************************************************************************)
(* The life of the process: binding the port, the services, the plugins and  *)
(* their commands, options and hooks, the configuration file, accepting      *)
(* clients, dispatching their requests, and the way down when something       *)
(* throws, through the destructors of tiksrv_app's members.                  *)
(*                                                                          *)
(* A client is its serial number; what is read from it and how a session      *)
(* opens is in TcpClient and Sessions.  A directory may hold several copies   *)
(* of a plugin: nothing in the loader tells them apart.                      *)
(***************************************************************************)
EXTENDS Naturals, Sequences, FiniteSets

CONSTANTS
  Files,         \* the files of the plugins directory, besides other things
  Cores, Eztiks, \* the copies of each plugin; other files cannot be loaded
  NoFile,
  IdLimit,       \* how many client ids there are, 2^32 in the code
  MaxClients     \* bound: connections made

ASSUME ServerAssumption ==
  /\ Cores \cap Eztiks = {}
  /\ NoFile \notin Files
  /\ IdLimit \in Nat \ {0}
  /\ MaxClients \in Nat

VARIABLES
  phase,      \* where tiksrv_app is
  cause,      \* history: the phase in which an exception was thrown
  argv,       \* input: what the command line is
  portFree,   \* input: the port can be bound and listened on
  dirExists,  \* input: the plugins directory exists
  cfgFile,    \* input: what the configuration file is
  bound,      \* where the acceptor's port came from, "none" before
  portOption, \* where the value of option "port" comes from
  services,   \* services_manager::services_
  groups,     \* hooks_manager::groups_: the groups that exist
  hooks,      \* the plugins with a hook in the disconnection group, in order
  filesLeft,  \* the files not visited yet
  plugins,    \* tiksrv_app::plugins_, in the order they were loaded
  exported,   \* how many of the plugins have exported their commands
  commands,   \* server::commands_: the plugin that serves each command
  stored,     \* eztik's options have values
  listening,  \* tcp_listener::running_
  accepting,  \* the client that async_accept is waiting for, 0 if none
  lastId,     \* how many clients have been made
  ready,      \* the completion handlers ready to run, oldest first
  clients,    \* the clients that are open
  sessions,   \* by client id, the client that opened the session there, or 0
  arrived,    \* history: connections made
  opened      \* history: some client has opened a session

input == <<argv, portFree, dirExists, cfgFile>>

loaded == <<services, groups, hooks, filesLeft, plugins, exported, commands, stored,
            bound, portOption>>

serving == <<accepting, lastId, ready, clients, sessions, arrived, opened>>

vars == <<phase, cause, input, loaded, listening, serving>>

Client == 1..MaxClients

\* The id of a client, which keys the sessions of eztik.
Id == 0..(IdLimit - 1)

IdOf_Narrow(c) == (c - 1) % ((IdLimit + 1) \div 2)

IdOf(c) == (c - 1) % IdLimit

Phase == {"argv", "exited", "constructing", "services", "directory", "plugins", "export", "config",
          "start", "running", "unwinding", "closing", "failed", "aborted",
          "crashed", "asserted"}

\* "port": it names the port; "help" stands for the version too.
Argv == {"plain", "port", "help", "bad"}

\* "good": empty, created if there was none; "options": it sets options of
\* eztik; "port": it sets the port; "bad": it cannot be created or read, or is
\* wrong for the program; "plugin": a bad value of an option of eztik.
CfgFile == {"good", "options", "port", "bad", "plugin"}

Plugin == Files \cap (Cores \cup Eztiks)

\* "send" stands for the commands of eztik that need a session.
Command == {"echo", "api_open", "send"}

\* The plugins that export a command.
Exporters(command) == IF command = "echo" THEN Cores ELSE Eztiks

Handler ==
  [kind : {"accepted"}, client : Client, ok : BOOLEAN] \cup
  [kind : {"request"}, client : Client, command : Command] \cup
  [kind : {"lost"}, client : Client]

\* Where the value of an option comes from.
Source == {"default", "argv", "file"}

Service == {"config_manager", "hooks_manager"}

TypeOK ==
  /\ phase \in Phase
  /\ cause \in Phase \cup {"none"}
  /\ argv \in Argv
  /\ portFree \in BOOLEAN
  /\ dirExists \in BOOLEAN
  /\ cfgFile \in CfgFile
  /\ bound \in {"none"} \cup Source
  /\ portOption \in Source
  /\ services \subseteq Service
  /\ groups \subseteq {"connection", "disconnection"}
  /\ hooks \in Seq(Plugin)
  /\ filesLeft \subseteq Files
  /\ plugins \in Seq(Plugin)
  /\ exported \in 0..Len(plugins)
  /\ commands \in [Command -> Plugin \cup {NoFile}]
  /\ stored \in BOOLEAN
  /\ listening \in BOOLEAN
  /\ accepting \in 0..(MaxClients + 1)
  /\ lastId \in 0..(MaxClients + 1)
  /\ ready \in Seq(Handler)
  /\ clients \subseteq Client
  /\ sessions \in [Id -> Client \cup {0}]
  /\ arrived \in 0..MaxClients
  /\ opened \in BOOLEAN

Init ==
  /\ phase = "argv"
  /\ cause = "none"
  /\ argv \in Argv
  /\ portFree \in BOOLEAN
  /\ dirExists \in BOOLEAN
  /\ cfgFile \in CfgFile
  /\ bound = "none"
  /\ portOption = "default"
  /\ services = {}
  /\ groups = {}
  /\ hooks = <<>>
  /\ filesLeft \in SUBSET Files
  /\ plugins = <<>>
  /\ exported = 0
  /\ commands = [m \in Command |-> NoFile]
  /\ stored = FALSE
  /\ listening = FALSE
  /\ accepting = 0
  /\ lastId = 0
  /\ ready = <<>>
  /\ clients = {}
  /\ sessions = [i \in Id |-> 0]
  /\ arrived = 0
  /\ opened = FALSE

-----------------------------------------------------------------------------
(* The start. *)

Enter(from, to) == phase = from /\ phase' = to /\ UNCHANGED cause

\* An exception leaves run(); main() ends the process when tiksrv_app is gone.
Throw == phase' = "unwinding" /\ cause' = phase

\* main: a command line that does not parse is reported, help is printed.
ParseArgv ==
  /\ \/ argv = "bad" /\ Enter("argv", "failed")
     \/ argv = "help" /\ Enter("argv", "exited")
     \/ argv \notin {"bad", "help"} /\ Enter("argv", "constructing")
  /\ portOption' = IF argv = "port" THEN "argv" ELSE portOption
  /\ UNCHANGED <<input, services, groups, hooks, filesLeft, plugins, exported,
                 commands, stored, bound, listening, serving>>

\* The constructor binds the port that the options name by then, and listens on
\* it.  Nothing is there to unwind if that fails.
Bind ==
  /\ \/ portFree /\ Enter("constructing", "services") /\ bound' = portOption
     \/ ~portFree /\ Enter("constructing", "failed") /\ UNCHANGED bound
  /\ UNCHANGED <<input, services, groups, hooks, filesLeft, plugins, exported,
                 commands, stored, portOption, listening, serving>>

\* Both services are registered and then initialized; hooks_manager makes its
\* groups.
Groups == {"connection", "disconnection"}

LoadServices ==
  /\ Enter("services", "directory")
  /\ services' = Service
  /\ groups' = Groups
  /\ UNCHANGED <<input, hooks, filesLeft, plugins, exported, commands, stored,
                 bound, portOption, listening, serving>>

OpenDirectory ==
  /\ \/ dirExists /\ Enter("directory", "plugins")
     \/ ~dirExists /\ phase = "directory" /\ Throw
  /\ UNCHANGED <<input, loaded, listening, serving>>

\* eztik_plugin::create throws without a hooks_manager.
Creates(f) == f \in Cores \/ (f \in Eztiks /\ "hooks_manager" \in services)

\* The directory is visited in any order.  A file that is no plugin, or whose
\* plugin is not created, is left out.  Constructing eztik's plugin registers
\* its hook and declares its options.
Hooking_Core(f) == IF f \in Cores THEN <<f>> ELSE <<>>

Hooking(f) == IF f \in Eztiks THEN <<f>> ELSE <<>>

LoadPlugin ==
  /\ phase = "plugins"
  /\ \E f \in filesLeft :
       /\ filesLeft' = filesLeft \ {f}
       /\ plugins' = IF Creates(f) THEN Append(plugins, f) ELSE plugins
       /\ hooks' = IF Creates(f) THEN hooks \o Hooking(f) ELSE hooks
  /\ UNCHANGED <<phase, cause, input, services, groups, exported, commands, stored,
                 bound, portOption, listening, serving>>

PluginsLoaded ==
  /\ filesLeft = {}
  /\ Enter("plugins", "export")
  /\ UNCHANGED <<input, loaded, listening, serving>>

\* server::add_command keeps the first command with an id.
AddCommand_Replaces(m, f) == IF f \in Exporters(m) THEN f ELSE commands[m]

AddCommand(m, f) ==
  IF f \in Exporters(m) /\ commands[m] = NoFile THEN f ELSE commands[m]

\* The plugins export their commands in the order they were loaded.
ExportCommands ==
  /\ phase = "export"
  /\ exported < Len(plugins)
  /\ exported' = exported + 1
  /\ commands' = [m \in Command |-> AddCommand(m, plugins[exported + 1])]
  /\ UNCHANGED <<phase, cause, input, services, groups, hooks, filesLeft, plugins,
                 stored, bound, portOption, listening, serving>>

CommandsExported ==
  /\ exported = Len(plugins)
  /\ Enter("export", "config")
  /\ UNCHANGED <<input, loaded, listening, serving>>

\* The file is parsed for the program's options, then for the plugins'.  A
\* failure of either is logged, and what follows it is not done.  An option
\* that is declared twice is ambiguous where the file sets it.
OwnOptionsParse == cfgFile # "bad"

PluginOptionsParse_OwnUnknown ==
  OwnOptionsParse /\ cfgFile \notin {"plugin", "options", "port"}

PluginOptionsParse ==
  /\ OwnOptionsParse
  /\ cfgFile = "plugin" => hooks = <<>>
  /\ cfgFile = "options" => Len(hooks) < 2

\* store() keeps what the command line has set.
PortAfter ==
  IF OwnOptionsParse /\ cfgFile = "port" /\ argv # "port" THEN "file" ELSE portOption

LoadConfig ==
  /\ Enter("config", "start")
  /\ portOption' = PortAfter
  /\ stored' = (PluginOptionsParse /\ hooks # <<>>)
  /\ UNCHANGED <<input, services, groups, hooks, filesLeft, plugins, exported,
                 commands, bound, listening, serving>>

-----------------------------------------------------------------------------
(* The listener. *)

\* accept_next.
AcceptNext ==
  accepting' = lastId + 1 /\ lastId' = lastId + 1

\* listen() again, for the backlog: it throws if the system refuses that.
Listen_FlagFirst ==
  /\ \/ Enter("start", "running") /\ AcceptNext
     \/ phase = "start" /\ Throw /\ UNCHANGED <<accepting, lastId>>
  /\ listening' = TRUE
  /\ UNCHANGED <<input, loaded, ready, clients, sessions, arrived, opened>>

Listen ==
  /\ \/ /\ Enter("start", "running")
        /\ listening' = TRUE
        /\ AcceptNext
     \/ /\ phase = "start"
        /\ Throw
        /\ UNCHANGED <<listening, accepting, lastId>>
  /\ UNCHANGED <<input, loaded, ready, clients, sessions, arrived, opened>>

Running(kind) == phase = "running" /\ ready # <<>> /\ Head(ready).kind = kind

Return == ready' = Tail(ready) /\ UNCHANGED <<phase, cause>>

\* server::on_accept, which drops a client that has gone already, or an error.
Accepted_LastWhenGone ==
  /\ Running("accepted")
  /\ \/ Head(ready).ok /\ clients' = clients \cup {Head(ready).client} /\ AcceptNext
     \/ UNCHANGED <<clients, accepting, lastId>>
  /\ Return
  /\ UNCHANGED <<input, loaded, listening, sessions, arrived, opened>>

Accepted ==
  /\ Running("accepted")
  /\ \E there \in BOOLEAN :
       clients' = IF Head(ready).ok /\ there THEN clients \cup {Head(ready).client}
                                             ELSE clients
  /\ AcceptNext
  /\ Return
  /\ UNCHANGED <<input, loaded, listening, sessions, arrived, opened>>

\* server::on_request, for a client that is still open.  A command that no
\* plugin serves is answered; one that is served is carried out by TcpClient's
\* and Sessions' part of the server, but for the entry that api_open makes.
Opens == Head(ready).command = "api_open" /\ commands["api_open"] # NoFile

Request ==
  /\ Running("request")
  /\ LET i == IdOf(Head(ready).client)
     IN  /\ Opens => stored \/ sessions[i] # 0
         /\ sessions' = IF Opens /\ sessions[i] = 0
                        THEN [sessions EXCEPT ![i] = Head(ready).client]
                        ELSE sessions
  /\ opened' = (opened \/ Opens)
  /\ Return
  /\ UNCHANGED <<input, loaded, listening, accepting, lastId, clients, arrived>>

\* sessions_service::create reads options that have no value: bad_any_cast,
\* which no handler catches.
OpenThrows ==
  /\ Running("request")
  /\ Opens /\ ~stored /\ sessions[IdOf(Head(ready).client)] = 0
  /\ Throw
  /\ ready' = Tail(ready)
  /\ UNCHANGED <<input, loaded, listening, accepting, lastId, clients, sessions,
                 arrived, opened>>

\* run_hooks moves the client into the first hook, which closes the session in
\* the table of its own plugin.
FirstHook(c) ==
  sessions' = IF hooks # <<>> /\ Head(hooks) = commands["api_open"]
              THEN [sessions EXCEPT ![IdOf(c)] = 0] ELSE sessions

\* server::on_error, which runs the hooks, and tcp_client::on_error.
Lost ==
  /\ Running("lost")
  /\ Len(hooks) < 2
  /\ FirstHook(Head(ready).client)
  /\ clients' = clients \ {Head(ready).client}
  /\ Return
  /\ UNCHANGED <<input, loaded, listening, accepting, lastId, arrived, opened>>

\* The second hook is given an empty std::any: bad_any_cast.
LostThrows ==
  /\ Running("lost")
  /\ Len(hooks) >= 2
  /\ FirstHook(Head(ready).client)
  /\ Throw
  /\ ready' = Tail(ready)
  /\ UNCHANGED <<input, loaded, listening, accepting, lastId, clients, arrived,
                 opened>>

-----------------------------------------------------------------------------
(* The way down: what is destroyed keeps its last value here. *)

\* ~plugin_wrapper closes the library and then destroys the plugin, by code of
\* the library: whether that is still mapped is up to the loader.
DestroyPlugins ==
  /\ phase = "unwinding"
  /\ phase' \in {"closing"} \cup (IF plugins = <<>> THEN {} ELSE {"crashed"})
  /\ UNCHANGED <<cause, input, loaded, listening, serving>>

\* ~server, with the commands, and ~tcp_listener: stop(), which asserts that the
\* listener runs.
DestroyServer ==
  /\ phase = "closing"
  /\ \/ listening /\ phase' = "failed" /\ listening' = FALSE
     \/ ~listening /\ phase' = "aborted" /\ UNCHANGED listening
  /\ UNCHANGED <<cause, input, loaded, serving>>

Program ==
  \/ ParseArgv \/ Bind \/ LoadServices \/ OpenDirectory \/ LoadPlugin \/ PluginsLoaded
  \/ ExportCommands \/ CommandsExported \/ LoadConfig \/ Listen \/ Accepted
  \/ Request \/ OpenThrows \/ Lost \/ LostThrows \/ DestroyPlugins \/ DestroyServer

-----------------------------------------------------------------------------
(* The environment. *)

\* A connection is made, or accepting one fails.
AcceptCompletes ==
  /\ phase = "running"
  /\ accepting # 0
  /\ arrived < MaxClients
  /\ arrived' = arrived + 1
  /\ \E ok \in BOOLEAN :
       ready' = Append(ready, [kind |-> "accepted", client |-> accepting, ok |-> ok])
  /\ accepting' = 0
  /\ UNCHANGED <<phase, cause, input, loaded, listening, lastId, clients, sessions,
                 opened>>

\* A client asks for a command, or leaves; one thing at a time.
ClientActs ==
  /\ phase = "running"
  /\ \E c \in clients :
       /\ \A i \in 1..Len(ready) : ready[i].client # c
       /\ \/ ready' = Append(ready, [kind |-> "lost", client |-> c])
          \/ \E command \in Command :
               ready' = Append(ready, [kind |-> "request", client |-> c,
                                       command |-> command])
  /\ UNCHANGED <<phase, cause, input, loaded, listening, accepting, lastId,
                 clients, sessions, arrived, opened>>

\* A session ends for a reason of its own, as in Sessions.
SessionEnds ==
  /\ phase = "running"
  /\ \E i \in Id : sessions[i] # 0 /\ sessions' = [sessions EXCEPT ![i] = 0]
  /\ UNCHANGED <<phase, cause, input, loaded, listening, accepting, lastId, ready,
                 clients, arrived, opened>>

\* What the router says to a session fails an assertion, as in Sessions and in
\* ApiReader, and the process is gone.  The session need not be in the table.
SessionAsserts ==
  /\ phase = "running"
  /\ opened
  /\ phase' = "asserted"
  /\ ready' = <<>> /\ clients' = {} /\ sessions' = [i \in Id |-> 0] /\ accepting' = 0
  /\ UNCHANGED <<cause, input, loaded, listening, lastId, arrived, opened>>

Next == Program \/ AcceptCompletes \/ ClientActs \/ SessionEnds \/ SessionAsserts

Spec == Init /\ [][Next]_vars

\* The program runs its steps and its ready handlers.
FairSpec == Spec /\ WF_vars(Program)

-----------------------------------------------------------------------------
(* Properties. *)

Ended == phase \in {"exited", "failed", "aborted", "crashed", "asserted"}

Accepts ==
  Cardinality({i \in 1..Len(ready) : ready[i].kind = "accepted"})
    + (IF accepting # 0 THEN 1 ELSE 0)

\* While the server runs it has one accept under way or completed, whatever
\* became of the clients before: the listener never falls deaf, nor has it two
\* accepts at a time.
OneAcceptWhileRunning == phase = "running" => listening /\ Accepts = 1

\* The plugin whose commands the clients reach is the one whose hook gets the
\* clients that leave, however many copies of it were loaded and in whatever
\* order: the first command with an id and the first hook win alike.
ServingHookIsFirst ==
  phase = "running" /\ commands["api_open"] # NoFile =>
    /\ "disconnection" \in groups
    /\ hooks # <<>> /\ Head(hooks) = commands["api_open"]

\* A session is of a client that is connected, as long as the server runs: the
\* session it opened is closed when it leaves, in the table that has it.
SessionsOfTheConnected ==
  phase = "running" => \A i \in Id : sessions[i] \in clients \cup {0}

\* A client finds the session of another under its id only if the ids have
\* wrapped between the two: one was accepted IdLimit clients after the other.
SharesOnlyAfterWrap ==
  \A c \in clients :
    LET d == sessions[IdOf(c)]
    IN  d \notin {0, c} => c >= d + IdLimit \/ d >= c + IdLimit

\* Once it runs, only eztik ends the server: by an assertion about what a router
\* says, which takes a session and so an eztik whose options have values, or by
\* an exception that leaves io_context::run, which takes a configuration file
\* that did not parse or a second copy of eztik with its hook.
HasRun == lastId > 0

EndsOnlyThroughEztik ==
  HasRun /\ phase # "running" =>
    /\ hooks # <<>>
    /\ \/ /\ phase = "asserted"
          /\ cfgFile \notin {"bad", "plugin"}
          /\ Len(hooks) > 1 => cfgFile # "options"
       \/ /\ cause = "running"
          /\ phase \in {"unwinding", "closing", "failed", "crashed"}
          /\ Len(hooks) > 1 \/ cfgFile \in {"bad", "plugin"}

\* main reports the exception it was made to catch only if it came from the
\* constructor or from a server that ran: every other one ends in a signal.
ReportsOnlyARunningServer == phase = "failed" => cause \in {"none", "running"}

\* A port that the command line names is the one the server listens on, and
\* what its options say, whatever the configuration file sets.
CommandLineWins ==
  phase = "running" /\ argv = "port" => bound = "argv" /\ portOption = "argv"

\* tcp_listener.cpp:33, assert(running_.load()): stop() is called on a listener
\* that runs.
StoppedWhileRunning == phase # "aborted"

\* config.cpp:21, option port is "The server listening port".
ListensOnThePort == phase = "running" => bound = portOption

\* A client that has connected is accepted or dropped and the listener waits
\* for the next, unless the process ends.
KeepsAccepting ==
  \A n \in 1..MaxClients : (arrived >= n) ~> (lastId > n \/ Ended)

=============================================================================
