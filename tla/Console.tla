------------------------------ MODULE Console ------------------------------
(***************************************************************************)
(* The terminal UI (crates/rara-tui) and the gRPC server behind it         *)
(* (crates/rara-server): the event loop with its connection, its status    *)
(* poll and its stream task, and the server with a broadcast receiver per  *)
(* stream.  The server runs in the daemon, with the event bus, or as the   *)
(* `serve' child that a UI without --server spawns, with a market data     *)
(* socket instead of a bus.                                                *)
(***************************************************************************)
EXTENDS Dashboard, FiniteSets

CONSTANTS
  MaxSeq,       \* bound on the events published
  MaxCrashes,   \* bound on the failures of server and market socket
  MaxAttempts,  \* MAX_STARTUP_ATTEMPTS (60)
  FeedSize,     \* capacity of the bus' broadcast channel
  WireSize,     \* messages between server and stream task
  ChannelSize   \* EVENT_CHANNEL_SIZE (256)

ASSUME ConsoleAssumption ==
  /\ {MaxSeq, MaxCrashes} \subseteq Nat
  /\ {MaxAttempts, FeedSize, WireSize, ChannelSize} \subseteq Nat \ {0}

VARIABLES
  mode,      \* "daemon" or "serve": which server this UI talks to
  leaving,   \* external: the user wants to leave and keeps pressing Esc
  server,    \* the server process, its market socket, and crashes so far
  bus,       \* the daemon's bus: events stored, numbers not yet broadcast
  tasks,     \* the stream tasks that run, each with its subscription
  handle,    \* stream_task: the task the loop holds, 0 for None
  link,      \* phase, connection status, client and last system status
  channel    \* events on their way from the stream tasks to the loop

serverVars == <<server, bus>>
consoleVars == <<mode, leaving, server, bus, tasks, handle, link, channel, dashboardVars>>

NoServer == [up |-> FALSE, ws |-> FALSE, crashes |-> 0]

ConsoleInit ==
  /\ mode \in {"daemon", "serve"} /\ leaving \in BOOLEAN
  /\ server = NoServer /\ bus = [topics |-> <<>>, untold |-> {}]
  /\ tasks = <<>> /\ handle = 0 /\ channel = <<>>
  /\ link = [phase |-> "starting", attempts |-> 0, status |-> "connecting",
             client |-> FALSE, ws |-> "unknown"]
  /\ ui = NewApp /\ rows = <<>> /\ keys = 0

-----------------------------------------------------------------------------
(***************************************************************************)
(* The server.                                                             *)
(***************************************************************************)
\* The daemon may be started again; the child of a UI is spawned once, and not
\* after it was killed.
ServerStarts ==
  /\ ~server.up
  /\ mode = "serve" => server.crashes = 0 /\ ui.running
  /\ server' = [server EXCEPT !.up = TRUE]
  /\ UNCHANGED <<mode, leaving, bus, tasks, handle, link, channel, dashboardVars>>

\* Connections break; who had stored an event cannot tell of it any more.
Stopped ==
  /\ bus' = [bus EXCEPT !.untold = {}]
  /\ tasks' = [t \in DOMAIN tasks |-> [tasks[t] EXCEPT !.live = FALSE, !.feed = <<>>]]

ServerCrashes ==
  /\ server.up /\ server.crashes < MaxCrashes
  /\ server' = [NoServer EXCEPT !.crashes = server.crashes + 1]
  /\ Stopped
  /\ UNCHANGED <<mode, leaving, handle, link, channel, dashboardVars>>

\* EventBus::publish: store, then broadcast, by several tasks at a time.
Store ==
  /\ mode = "daemon" /\ server.up /\ Len(bus.topics) < MaxSeq
  /\ \E topic \in {"trading", "research"} :
       bus' = [topics |-> Append(bus.topics, topic),
               untold |-> bus.untold \cup {Len(bus.topics) + 1}]
  /\ UNCHANGED <<mode, leaving, server, tasks, handle, link, channel, dashboardVars>>

\* A receiver that is full loses its oldest number, and the stream only logs it.
Offer(feed, seq) ==
  Append(IF Len(feed) < FeedSize THEN feed ELSE Tail(feed), seq)

Broadcast ==
  \E seq \in bus.untold :
    /\ bus' = [bus EXCEPT !.untold = @ \ {seq}]
    /\ tasks' = [t \in DOMAIN tasks |->
                   IF tasks[t].live THEN [tasks[t] EXCEPT !.feed = Offer(@, seq)]
                   ELSE tasks[t]]
    /\ UNCHANGED <<mode, leaving, server, handle, link, channel, dashboardVars>>

\* stream_events: a number is looked up and sent.  Without a bus nothing ever is.
StreamEvents(t) ==
  /\ tasks[t].live /\ tasks[t].feed # <<>> /\ Len(tasks[t].wire) < WireSize
  /\ LET seq == Head(tasks[t].feed)
     IN tasks' = [tasks EXCEPT ![t].feed = Tail(@),
                    ![t].wire = Append(@, [seq |-> seq, topic |-> bus.topics[seq]])]
  /\ UNCHANGED <<mode, leaving, server, bus, handle, link, channel, dashboardVars>>

\* run_market_data_ws raises the flag while its socket is connected.
SocketConnects ==
  /\ mode = "serve" /\ server.up /\ ~server.ws
  /\ server' = [server EXCEPT !.ws = TRUE]
  /\ UNCHANGED <<mode, leaving, bus, tasks, handle, link, channel, dashboardVars>>

SocketBreaks ==
  /\ server.ws /\ server.crashes < MaxCrashes
  /\ server' = [server EXCEPT !.ws = FALSE, !.crashes = @ + 1]
  /\ UNCHANGED <<mode, leaving, bus, tasks, handle, link, channel, dashboardVars>>

-----------------------------------------------------------------------------
(***************************************************************************)
(* The stream task of spawn_event_stream.                                  *)
(***************************************************************************)
Without(t) == [u \in DOMAIN tasks \ {t} |-> tasks[u]]

NewTask == [live |-> FALSE, open |-> FALSE, feed |-> <<>>, wire |-> <<>>]

\* A number that no task has, which is not the number the loop still holds.
Spawned ==
  LET t == CHOOSE n \in 1 .. 3 : n \notin DOMAIN tasks \cup {handle}
  IN /\ handle' = t
     /\ tasks' = [u \in DOMAIN tasks \cup {t} |-> IF u = t THEN NewTask ELSE tasks[u]]

\* The subscription begins with what is broadcast from now on.
Open(t) ==
  /\ ~tasks[t].open /\ server.up
  /\ tasks' = [tasks EXCEPT ![t].open = TRUE, ![t].live = TRUE]
  /\ UNCHANGED <<mode, leaving, server, bus, handle, link, channel, dashboardVars>>

Receive(t) ==
  /\ tasks[t].wire # <<>> /\ Len(channel) < ChannelSize
  /\ channel' = Append(channel, Head(tasks[t].wire))
  /\ tasks' = [tasks EXCEPT ![t].wire = Tail(@)]
  /\ UNCHANGED <<mode, leaving, server, bus, handle, link, dashboardVars>>

\* The call failed, or the connection broke; what is on the wire may be lost.
TaskEnds(t) ==
  /\ ~tasks[t].live /\ (tasks[t].open \/ ~server.up)
  /\ tasks' = Without(t)
  /\ UNCHANGED <<mode, leaving, server, bus, handle, link, channel, dashboardVars>>

-----------------------------------------------------------------------------
(***************************************************************************)
(* The event loop.                                                         *)
(***************************************************************************)
\* Before the dashboard is up, and once the loop gave up, it can only be left.
KeyPressed ==
  /\ ui.running
  /\ IF link.phase = "ready" THEN HandleKey ELSE Quit
  /\ UNCHANGED <<rows, mode, leaving, server, bus, tasks, handle, link, channel>>

EscapePressed ==
  /\ ui.running
  /\ IF link.phase = "ready" THEN PressEscape ELSE Quit
  /\ UNCHANGED <<rows, mode, leaving, server, bus, tasks, handle, link, channel>>

Drain ==
  /\ ui.running /\ channel # <<>>
  /\ LET shown == FoldLeft(PushEvent, [rows |-> rows, ui |-> ui], channel)
     IN rows' = shown.rows /\ ui' = shown.ui
  /\ channel' = <<>>
  /\ UNCHANGED <<keys, mode, leaving, server, bus, tasks, handle, link>>

\* A task that has finished is forgotten, to be spawned again with the next poll.
NoticeEnd ==
  /\ ui.running /\ handle # 0 /\ handle \notin DOMAIN tasks
  /\ handle' = 0
  /\ UNCHANGED <<mode, leaving, server, bus, tasks, link, channel, dashboardVars>>

\* The flag of the health probe: the daemon's is one that nobody raises.
Probe == mode = "serve" /\ server.ws

\* get_system_status.
SystemStatus == IF Probe THEN "connected" ELSE "disconnected"

\* The health check must be answered as well; the server may be gone by then.
Startup ==
  /\ ui.running /\ link.phase = "starting" /\ link.attempts < MaxAttempts
  /\ IF server.up
     THEN /\ link' = [link EXCEPT !.phase = "ready", !.status = "connected", !.client = TRUE]
          /\ Spawned
     ELSE /\ link' = [link EXCEPT !.attempts = @ + 1]
          /\ UNCHANGED <<tasks, handle>>
  /\ UNCHANGED <<mode, leaving, server, bus, channel, dashboardVars>>

GiveUp ==
  /\ ui.running /\ link.phase = "starting" /\ link.attempts = MaxAttempts
  /\ link' = [link EXCEPT !.phase = "given up"]
  /\ UNCHANGED <<mode, leaving, server, bus, tasks, handle, channel, dashboardVars>>

\* A client that fails is dropped and connected again with the next poll.
PollStatus ==
  IF link.client /\ server.up
  THEN [link EXCEPT !.status = "connected", !.ws = SystemStatus]
  ELSE [link EXCEPT !.status = IF server.up THEN "connected" ELSE "disconnected",
                    !.client = ~link.client /\ server.up]

\* Deviation: the handle of a task that still runs is overwritten.
PollRespawns ==
  /\ ui.running /\ link.phase = "ready"
  /\ link' = PollStatus
  /\ IF link'.client /\ Cardinality(DOMAIN tasks) < 2 THEN Spawned ELSE UNCHANGED <<tasks, handle>>
  /\ UNCHANGED <<mode, leaving, server, bus, channel, dashboardVars>>

\* Deviation: nothing is spawned after the first stream.
PollOnly ==
  /\ ui.running /\ link.phase = "ready"
  /\ link' = PollStatus
  /\ UNCHANGED <<mode, leaving, server, bus, tasks, handle, channel, dashboardVars>>

Poll ==
  /\ ui.running /\ link.phase = "ready"
  /\ link' = PollStatus
  /\ IF handle = 0 /\ link'.client THEN Spawned ELSE UNCHANGED <<tasks, handle>>
  /\ UNCHANGED <<mode, leaving, server, bus, channel, dashboardVars>>

\* The task is aborted, and the child killed if the UI has spawned one.
Shutdown ==
  /\ ~ui.running /\ (handle # 0 \/ link.client \/ (mode = "serve" /\ server.up))
  /\ handle' = 0 /\ channel' = <<>>
  /\ link' = [link EXCEPT !.client = FALSE]
  /\ tasks' = Without(handle)
  /\ IF mode = "serve" THEN server' = [server EXCEPT !.up = FALSE, !.ws = FALSE]
     ELSE server' = server
  /\ UNCHANGED <<mode, leaving, bus, dashboardVars>>

-----------------------------------------------------------------------------
StreamTask ==
  \E t \in DOMAIN tasks : Open(t) \/ Receive(t) \/ TaskEnds(t)

Server ==
  \/ ServerStarts \/ ServerCrashes \/ Store \/ Broadcast
  \/ SocketConnects \/ SocketBreaks
  \/ \E t \in DOMAIN tasks : StreamEvents(t)

Loop ==
  \/ KeyPressed \/ Drain \/ NoticeEnd \/ Startup \/ GiveUp \/ Poll \/ Shutdown

ConsoleNext == Server \/ StreamTask \/ Loop

ConsoleSpec == ConsoleInit /\ [][ConsoleNext]_consoleVars

\* The tasks run, the socket is retried, and a user who wants to leave presses Esc.
FairConsoleSpec ==
  /\ ConsoleSpec
  /\ WF_consoleVars(Drain) /\ WF_consoleVars(NoticeEnd)
  /\ WF_consoleVars(Startup \/ GiveUp) /\ WF_consoleVars(Poll) /\ WF_consoleVars(Shutdown)
  /\ WF_consoleVars(StreamTask) /\ WF_consoleVars(SocketConnects)
  /\ WF_consoleVars(leaving /\ EscapePressed)

-----------------------------------------------------------------------------
(***************************************************************************)
(* Properties.                                                             *)
(***************************************************************************)
\* No event is listed twice, although several tasks publish, the stream breaks and
\* is opened again, and the events of an old stream are still on their way.
EventsOnce ==
  LET listed == rows \o channel
  IN \A i, j \in DOMAIN listed : listed[i].seq = listed[j].seq => i = j

Watching ==
  /\ link.status = "connected" /\ link.ws = SystemStatus
  /\ handle \in DOMAIN tasks /\ tasks[handle].live

\* When the server, and its socket, stay up for good, a UI that has not given up
\* before says so and listens to the events again.
ConsoleRecovers ==
  <>[](server.up /\ (mode = "serve" => server.ws))
  => <>[](Watching \/ link.phase = "given up" \/ ~ui.running)

\* Whatever is open on the screen, pressing Esc leaves in the end, and the server
\* that was spawned for the UI goes with it.
EscapeLeaves == leaving ~> ~ui.running /\ (mode = "serve" => ~server.up)
=============================================================================
