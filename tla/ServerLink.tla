------------------------------ MODULE ServerLink ------------------------------
(***************************************************************************)
(* The host and the Creature Server: a websocket that reconnects, the       *)
(* registration that follows every connect, and the queue of reports with   *)
(* the writer that empties it.  The server restarts when it likes and       *)
(* forgets its registrations; a connection to an earlier life is dead, and  *)
(* is noticed to be some time later.                                        *)
(***************************************************************************)
EXTENDS Naturals

CONSTANTS
  MaxLives,              \* bound: how often the server is started
  MaxReports,            \* bound: reports counted in the queue
  PostsFail              \* may a running server refuse a registration?

VARIABLES
  enabled,               \* the configuration's server.enabled
  main,                  \* "starting", "running" or "stopping"
  link,                  \* the connection's thread: "off", "loop", "posting", "answered", "ended"
  connectionEstablished,
  socket,                \* the life of the server it is connected to, 0: none
  life, up,              \* the server's
  registered,            \* the last life that holds the creature
  refused,               \* the last life that refused it
  reports,               \* websocketOutgoingQueue
  writer                 \* "off", "running", "told" or "ended"

vars == <<enabled, main, link, connectionEstablished, socket, life, up, registered, refused,
          reports, writer>>
server_vars == <<life, up, registered, refused>>
queue_vars == <<reports, writer>>

Init ==
  /\ enabled \in BOOLEAN /\ main = "starting" /\ link = "off"
  /\ connectionEstablished = FALSE /\ socket = 0
  /\ life = 0 /\ up = FALSE /\ registered = 0 /\ refused = 0
  /\ reports = 0 /\ writer = "off"

TypeOK ==
  /\ enabled \in BOOLEAN /\ main \in {"starting", "running", "stopping"}
  /\ link \in {"off", "loop", "posting", "answered", "ended"}
  /\ connectionEstablished \in BOOLEAN /\ up \in BOOLEAN
  /\ life \in 0..MaxLives /\ {socket, registered, refused} \subseteq 0..life
  /\ reports \in 0..MaxReports /\ writer \in {"off", "running", "told", "ended"}

-----------------------------------------------------------------------------
(* main, and the writer that the connection's start starts *)

StartConnection == link' = "loop" /\ writer' = "running"

Start ==
  /\ main = "starting" /\ main' = "running"
  /\ IF enabled THEN StartConnection ELSE UNCHANGED <<link, writer>>
  /\ UNCHANGED <<enabled, connectionEstablished, socket, server_vars, reports>>

Stop ==
  /\ main = "running" /\ main' = "stopping"
  /\ UNCHANGED <<enabled, link, connectionEstablished, socket, server_vars, queue_vars>>

\* A sensor handler or the watchdog queues a report; not once the queue was shut down.
Report ==
  /\ main # "starting" /\ link # "ended" /\ reports < MaxReports
  /\ reports' = reports + 1
  /\ UNCHANGED <<enabled, main, link, connectionEstablished, socket, server_vars, writer>>

\* What is written to a socket that is not connected is lost.
Write ==
  /\ writer = "running" /\ reports > 0 /\ reports' = reports - 1
  /\ UNCHANGED <<enabled, main, link, connectionEstablished, socket, server_vars, writer>>

WriterEnds ==
  /\ writer = "told" /\ writer' = "ended"
  /\ UNCHANGED <<enabled, main, link, connectionEstablished, socket, server_vars, reports>>

-----------------------------------------------------------------------------
(* The server and the websocket's own thread *)

ServerStarts ==
  /\ ~up /\ life < MaxLives /\ up' = TRUE /\ life' = life + 1
  /\ UNCHANGED <<enabled, main, link, connectionEstablished, socket, registered, refused, queue_vars>>

ServerStops ==
  /\ up /\ up' = FALSE
  /\ UNCHANGED <<enabled, main, link, connectionEstablished, socket, life, registered, refused, queue_vars>>

\* onMessage
Open ==
  /\ link \notin {"off", "ended"} /\ socket = 0 /\ up
  /\ socket' = life /\ connectionEstablished' = TRUE
  /\ UNCHANGED <<enabled, main, link, server_vars, queue_vars>>

\* A connection breaks, or that it is dead is noticed.
Lost ==
  /\ socket # 0 /\ socket' = 0
  /\ UNCHANGED <<enabled, main, link, connectionEstablished, server_vars, queue_vars>>

-----------------------------------------------------------------------------
(* The connection's thread *)

\* The flag is taken before the request is made: exchange(false).
FlagTaken == FALSE

Exchange ==
  /\ link = "loop" /\ main # "stopping" /\ connectionEstablished
  /\ connectionEstablished' = FlagTaken /\ link' = "posting"
  /\ UNCHANGED <<enabled, main, socket, server_vars, queue_vars>>

ClearedAfter == FALSE

\* registerCreatureWithServer: nothing is tried again before the next Open.
Post ==
  /\ link = "posting" /\ link' = "answered"
  /\ \/ up /\ registered' = life /\ UNCHANGED refused
     \/ up /\ PostsFail /\ refused' = life /\ UNCHANGED registered
     \/ ~up /\ UNCHANGED <<registered, refused>>
  /\ UNCHANGED <<enabled, main, connectionEstablished, socket, life, up, queue_vars>>

\* What the flag is when the request is done: what an Open has made of it meanwhile
AfterPost == connectionEstablished

Answered ==
  /\ link = "answered" /\ link' = "loop" /\ connectionEstablished' = AfterPost
  /\ UNCHANGED <<enabled, main, socket, server_vars, queue_vars>>

\* The end of run: the queue and the writer are shut down, the socket is closed.
Close ==
  /\ link = "loop" /\ main = "stopping" /\ link' = "ended"
  /\ writer' = "told" /\ socket' = 0
  /\ UNCHANGED <<enabled, main, connectionEstablished, server_vars, reports>>

Next ==
  \/ Start \/ Stop \/ Report \/ Write \/ WriterEnds
  \/ ServerStarts \/ ServerStops \/ Open \/ Lost
  \/ Exchange \/ Post \/ Answered \/ Close

Spec == Init /\ [][Next]_vars

-----------------------------------------------------------------------------
(* What the connection promises *)

\* However often the server restarts, and whatever the request was doing then: a
\* server the host is connected to knows its creature, has refused it, or is about
\* to be told (main.cpp:401 to 406).
RegisteredOrComing ==
  socket = life /\ up /\ link # "ended" =>
    registered = life \/ refused = life \/ connectionEstablished \/ link = "posting"

\* Somebody empties the queue, "even if we're not enabled so that messages that get
\* sent don't just sit in the queue forever" (ServerConnection.cpp:20).
ReportsHaveWriter == reports > 0 => writer # "off"
=============================================================================
