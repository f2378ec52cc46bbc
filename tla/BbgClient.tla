------------------------------ MODULE BbgClient ------------------------------
(***************************************************************************)
(* BbgClient on the BeagleBone, with the GPS simulator on its I2C bus:     *)
(*   main   bbg_client_run up to fork(), then tcp_process_run: takes       *)
(*          requests from the pipe and sends each on a connection of its   *)
(*          own;                                                           *)
(*   child  i2c_process_run: reads a coordinate, makes the next test event *)
(*          a request and writes it into the pipe;                         *)
(*   systemd  starts main and restarts it as the unit file says, when the  *)
(*          client is run as a service (supervised) and not by hand.       *)
(* Requests are written and read whole: they are shorter than PIPE_BUF, so *)
(* the short reads and writes that the code checks for do not happen.      *)
(* recv() has no timeout, and TcpServer drops requests (see TcpServer): a  *)
(* server that stays silent is one of the outcomes of send().              *)
(***************************************************************************)
EXTENDS Config, GpsSimulator, FiniteSets

CONSTANTS ConfigFiles,    \* contents the configuration file may have
          SampleFiles,    \* files the parser is compared with its reference on
          PipeCapacity,   \* requests the pipe has room for
          IdSpace         \* number of request ids (2^64 in the code)

ASSUME FileAssumption == ConfigFiles \cup SampleFiles \subseteq Seq(Piece)
ASSUME StrtolAssumption ==
  \A file \in ConfigFiles \cup SampleFiles : \A i \in DOMAIN file :
    LET text == EntryOf(file[i]).value
    IN text \in DOMAIN strtol /\ strtol[text] \in StrtolResult
ASSUME ClientAssumption == PipeCapacity \in Nat \ {0} /\ IdSpace \in Nat \ {0, 1}

VARIABLES supervised,       \* run by systemd
          main, child,      \* program counters
          status,           \* how main ended: none, zero, failed
          bbg_config,       \* bbg_config.server_port, 0 before it is loaded
          pipe,             \* requests in the pipe
          readers, writers, \* processes that hold an end of the pipe
          current_event, request_id, \* statics of generate_test_message
          message,          \* the child's message, <<>> or one request
          coordinate,       \* its coordinate; it travels with the message, and
                            \* nobody looks at it before Database does
          request,          \* main's request, <<>> or one request
          server,           \* what the server does with the request sent
          parked            \* history: vehicles whose last event is a start

ends == <<readers, writers>>
generator == <<current_event, request_id, message, coordinate, parked>>
sender == <<request, server>>
client == <<supervised, main, child, status, bbg_config, pipe, ends, generator,
            sender>>
vars == <<client, gps>>

-----------------------------------------------------------------------------
Start(v) == [action |-> "START_PARKING", vehicle |-> v]
End(v) == [action |-> "END_PARKING", vehicle |-> v]

\* The table, with the vehicles numbered in the order they appear.
test_events ==
  << Start(1), Start(2), Start(3), Start(4), Start(5), Start(6),
     End(2), End(1), Start(7), Start(8), End(3), End(4),
     Start(9), Start(10), Start(11), Start(12),
     End(5), End(6), End(7), End(8), End(9), End(10), End(11), End(12) >>

TEST_EVENTS_COUNT == Len(test_events)

ServerPort == <<"s", "e", "r", "v", "e", "r", "_", "p", "o", "r", "t">>

DefaultPort == 5000

UINT16_MAX == 65535

\* An int has at least 17 bits, so the low 16 survive the conversions.
ASSUME WidthAssumption == (INT_MAX + 1) % (UINT16_MAX + 1) = 0

\* server_port = (uint16_t)config_get_int(config, "server_port", 5000).  The
\* other settings (address, log files) do not change what the client does.
load_bbg_client_configuration(config) ==
  config_get_int(config, ServerPort, DefaultPort) % (UINT16_MAX + 1)

Init ==
  /\ GpsInit /\ supervised \in BOOLEAN
  /\ main = "config" /\ child = "off" /\ status = "none"
  /\ bbg_config = 0
  /\ pipe = <<>> /\ readers = {} /\ writers = {}
  /\ current_event = 0 /\ request_id = 1
  /\ message = <<>> /\ coordinate = <<>> /\ request = <<>> /\ server = "idle"
  /\ parked = {}

Exit(code) == main' = "gone" /\ status' = code

-----------------------------------------------------------------------------
(* bbg_client_run.                                                         *)

LoadConfiguration ==
  /\ main = "config"
  /\ \E file \in ConfigFiles :
       LET config == config_load(file)
       IN \/ /\ config.status # 0
             /\ Exit("failed") /\ UNCHANGED bbg_config
          \/ /\ config.status = 0
             /\ bbg_config' = load_bbg_client_configuration(config)
             /\ main' = "pipe" /\ UNCHANGED status
  /\ UNCHANGED <<supervised, child, pipe, ends, generator, sender, gps>>

CreatePipe ==
  /\ main = "pipe"
  /\ \/ /\ main' = "fork" /\ readers' = {"main"} /\ writers' = {"main"}
        /\ UNCHANGED status
     \/ Exit("failed") /\ UNCHANGED ends
  /\ UNCHANGED <<supervised, child, bbg_config, pipe, generator, sender, gps>>

Fork ==
  /\ main = "fork"
  /\ \/ /\ main' = "close_write" /\ child' = "close_read"
        /\ readers' = {"main", "child"} /\ writers' = {"main", "child"}
        /\ UNCHANGED status
     \/ /\ Exit("failed") /\ readers' = {} /\ writers' = {}
        /\ UNCHANGED child
  /\ UNCHANGED <<supervised, bbg_config, pipe, generator, sender, gps>>

\* Mutant: the parent keeps its copy of the write end.
KeepWriteEnd ==
  /\ main = "close_write"
  /\ main' = "logger"
  /\ UNCHANGED <<supervised, child, status, bbg_config, pipe, ends, generator,
                 sender, gps>>

CloseWriteEnd ==
  /\ main = "close_write"
  /\ main' = "logger"
  /\ writers' = writers \ {"main"}
  /\ UNCHANGED <<supervised, child, status, bbg_config, pipe, readers,
                 generator, sender, gps>>

\* Mutant: the child keeps its copy of the read end.
KeepReadEnd ==
  /\ child = "close_read"
  /\ child' = "open"
  /\ UNCHANGED <<supervised, main, status, bbg_config, pipe, ends, generator,
                 sender, gps>>

CloseReadEnd ==
  /\ child = "close_read"
  /\ child' = "open"
  /\ readers' = readers \ {"child"}
  /\ UNCHANGED <<supervised, main, status, bbg_config, pipe, writers, generator,
                 sender, gps>>

-----------------------------------------------------------------------------
(* i2c_process_run.                                                        *)

\* The kernel closes what a process had open, and its memory is gone.
ChildEnds ==
  /\ child' = "gone"
  /\ readers' = readers \ {"child"} /\ writers' = writers \ {"child"}
  /\ current_event' = 0 /\ request_id' = 1
  /\ message' = <<>> /\ coordinate' = <<>> /\ parked' = {}

\* logger_init and i2c_open_stm32.
OpenDevice ==
  /\ child = "open"
  /\ \/ child' = "generate" /\ UNCHANGED <<ends, generator>>
     \/ ChildEnds
  /\ UNCHANGED <<supervised, main, status, bbg_config, pipe, sender, gps>>

\* generate_test_message up to read(): the id is used up before the read.
Generate ==
  /\ child = "generate"
  /\ message' = <<[id |-> request_id, event |-> test_events[current_event + 1]]>>
  /\ request_id' = (request_id + 1) % IdSpace
  /\ StartRead
  /\ child' = "read"
  /\ UNCHANGED <<supervised, main, status, bbg_config, pipe, ends,
                 current_event, coordinate, parked, sender>>

\* i2c_read_coordinates returns.  A failure ends the process, with status 0.
ReadReturns ==
  /\ child = "read" /\ master \in {"ok", "failed"}
  /\ master' = "idle" /\ got' = <<>>
  /\ \/ /\ master = "ok"
        /\ coordinate' = got
        /\ child' = "write" /\ UNCHANGED message
     \/ /\ master = "failed"
        /\ message' = <<>>
        /\ child' = "stop" /\ UNCHANGED coordinate
  /\ UNCHANGED <<supervised, main, status, bbg_config, pipe, ends,
                 current_event, request_id, parked, sender, current_coordinate,
                 i2c_tx_packet, hi2c, flags, txdr>>

\* Mutant: a full pipe loses the message (a pipe in non-blocking mode).
WriteOrForget ==
  /\ child = "write" /\ readers # {}
  /\ pipe' = IF Len(pipe) < PipeCapacity THEN pipe \o message ELSE pipe
  /\ parked' = LET e == message[1].event
               IN IF e.action = "START_PARKING" THEN parked \cup {e.vehicle}
                  ELSE parked \ {e.vehicle}
  /\ message' = <<>> /\ coordinate' = <<>>
  /\ child' = "sleep"
  /\ UNCHANGED <<supervised, main, status, bbg_config, ends, current_event,
                 request_id, sender, gps>>

\* write() blocks while the pipe is full.
WriteMessage ==
  /\ child = "write" /\ readers # {}
  /\ Len(pipe) < PipeCapacity
  /\ pipe' = pipe \o message
  /\ parked' = LET e == message[1].event
               IN IF e.action = "START_PARKING" THEN parked \cup {e.vehicle}
                  ELSE parked \ {e.vehicle}
  /\ message' = <<>> /\ coordinate' = <<>>
  /\ child' = "sleep"
  /\ UNCHANGED <<supervised, main, status, bbg_config, ends, current_event,
                 request_id, sender, gps>>

\* write() to a pipe that nobody can read: SIGPIPE.
BrokenPipe ==
  /\ child = "write" /\ readers = {}
  /\ ChildEnds
  /\ UNCHANGED <<supervised, main, status, bbg_config, pipe, sender, gps>>

\* Mutant: the wrap-around comes one event early.
NextEventEarly ==
  /\ child = "sleep"
  /\ current_event' = (current_event + 1) % (TEST_EVENTS_COUNT - 1)
  /\ child' = "generate"
  /\ UNCHANGED <<supervised, main, status, bbg_config, pipe, ends, request_id,
                 message, coordinate, parked, sender, gps>>

\* Mutant: the index does not wrap around.
NextEventNoWrap ==
  /\ child = "sleep"
  /\ current_event' = current_event + 1
  /\ child' = "generate"
  /\ UNCHANGED <<supervised, main, status, bbg_config, pipe, ends, request_id,
                 message, coordinate, parked, sender, gps>>

NextEvent ==
  /\ child = "sleep"
  /\ current_event' = (current_event + 1) % TEST_EVENTS_COUNT
  /\ child' = "generate"
  /\ UNCHANGED <<supervised, main, status, bbg_config, pipe, ends, request_id,
                 message, coordinate, parked, sender, gps>>

StopChild ==
  /\ child = "stop"
  /\ ChildEnds
  /\ UNCHANGED <<supervised, main, status, bbg_config, pipe, sender, gps>>

Child ==
  \/ CloseReadEnd \/ OpenDevice \/ Generate \/ ReadReturns \/ WriteMessage
  \/ BrokenPipe \/ NextEvent \/ StopChild

-----------------------------------------------------------------------------
(* tcp_process_run.                                                        *)

MainEnds(code) ==
  /\ Exit(code)
  /\ readers' = readers \ {"main"} /\ writers' = writers \ {"main"}
  /\ request' = <<>> /\ server' = "idle"

InitLogger ==
  /\ main = "logger"
  /\ \/ main' = "read" /\ UNCHANGED <<status, ends, sender>>
     \/ MainEnds("failed")
  /\ UNCHANGED <<supervised, child, bbg_config, pipe, generator, gps>>

\* read() takes the oldest request, or reports end of file when the pipe is
\* empty and nobody can write to it; otherwise it blocks.
ReadRequest ==
  /\ main = "read"
  /\ \/ /\ pipe # <<>>
        /\ request' = <<Head(pipe)>> /\ pipe' = Tail(pipe)
        /\ main' = "connect"
        /\ UNCHANGED <<status, ends, server>>
     \/ /\ pipe = <<>> /\ writers = {}
        /\ MainEnds("zero") /\ UNCHANGED pipe
  /\ UNCHANGED <<supervised, child, bbg_config, generator, gps>>

\* A request whose connection cannot be made or breaks is given up.
NextRequest == main' = "read" /\ request' = <<>> /\ server' = "idle"

bbg_client_connect ==
  /\ main = "connect"
  /\ \/ main' = "send" /\ UNCHANGED sender
     \/ NextRequest
  /\ UNCHANGED <<supervised, child, status, bbg_config, pipe, ends, generator,
                 gps>>

\* The server will answer or close, or it has dropped the request and keeps
\* the connection open.
SendRequest ==
  /\ main = "send"
  /\ \/ main' = "recv" /\ server' \in {"answers", "silent"} /\ UNCHANGED request
     \/ NextRequest
  /\ UNCHANGED <<supervised, child, status, bbg_config, pipe, ends, generator,
                 gps>>

\* recv() returns with a response, or fails; either way the client goes on.
ReceiveResponse ==
  /\ main = "recv" /\ server = "answers"
  /\ NextRequest
  /\ UNCHANGED <<supervised, child, status, bbg_config, pipe, ends, generator,
                 gps>>

Main ==
  \/ LoadConfiguration \/ CreatePipe \/ Fork \/ CloseWriteEnd \/ InitLogger
  \/ ReadRequest \/ bbg_client_connect \/ SendRequest \/ ReceiveResponse

-----------------------------------------------------------------------------
(* Kills, and systemd.                                                     *)

KillMain ==
  /\ main # "gone"
  /\ MainEnds("failed")
  /\ UNCHANGED <<supervised, child, bbg_config, pipe, generator, gps>>

\* The Linux I2C driver does not give up a transfer for a signal.
KillChild ==
  /\ child \notin {"off", "read", "gone"}
  /\ ChildEnds
  /\ UNCHANGED <<supervised, main, status, bbg_config, pipe, sender, gps>>

\* Restart=on-failure: the rest of the control group is killed, and main is
\* started again.  An exit with status 0 is not a failure.
Restart ==
  /\ supervised /\ main = "gone" /\ status = "failed" /\ child # "read"
  /\ main' = "config" /\ child' = "off" /\ status' = "none"
  /\ bbg_config' = 0
  /\ pipe' = <<>> /\ readers' = {} /\ writers' = {}
  /\ current_event' = 0 /\ request_id' = 1
  /\ message' = <<>> /\ coordinate' = <<>> /\ request' = <<>> /\ server' = "idle"
  /\ parked' = {}
  /\ UNCHANGED <<supervised, gps>>

Next ==
  \/ Main \/ Child \/ KillMain \/ KillChild \/ Restart
  \/ (Firmware \/ Bus) /\ UNCHANGED client

Spec == Init /\ [][Next]_vars

\* Both processes are scheduled, the I2C interrupts are served, a transfer
\* ends (the driver has a timeout), and systemd restarts what failed.
Fairness ==
  /\ WF_vars(Main) /\ WF_vars(Child) /\ WF_vars(Restart)
  /\ WF_vars(EventInterrupt /\ UNCHANGED client)
  /\ WF_vars((TakeHalf \/ SendStop \/ GiveUp) /\ UNCHANGED client)

FairSpec == Spec /\ Fairness

-----------------------------------------------------------------------------
\* Type correctness.
TypeOK ==
  /\ GpsTypeOK
  /\ main \in {"config", "pipe", "fork", "close_write", "logger", "read",
               "connect", "send", "recv", "gone"}
  /\ child \in {"off", "close_read", "open", "generate", "read", "write",
                "sleep", "stop", "gone"}
  /\ status \in {"none", "zero", "failed"} /\ (status = "none" <=> main # "gone")
  /\ bbg_config \in 0 .. UINT16_MAX
  /\ Len(pipe) <= PipeCapacity
  /\ readers \subseteq {"main", "child"} /\ writers \subseteq {"main", "child"}
  /\ current_event \in 0 .. TEST_EVENTS_COUNT - 1
  /\ request_id \in 0 .. IdSpace - 1
  /\ request # <<>> <=> main \in {"connect", "send", "recv"}
  /\ message # <<>> <=> child \in {"read", "write"}

\* Latitude and longitude of a request are of one coordinate, although the
\* timer changes the current coordinate between the bytes of a transfer and a
\* transfer may be cut short before the next one.
WholeCoordinate ==
  child = "write" =>
    \E i \in DOMAIN gps_coordinates : coordinate = gps_coordinates[i]

\* Requests that are on their way, oldest first.
OnTheWay == request \o pipe \o message

\* No request is lost, doubled or overtaken between the two processes, even
\* when the server is slow and the pipe is full: the ids on the way have no
\* gap, up to the one that is given out next, and when main ends because the
\* I2C process is gone, everything that process wrote has been tried.
PipeInOrder ==
  LET ids == [i \in 1 .. Len(OnTheWay) |-> OnTheWay[i].id]
             \o (IF child \in {"stop", "gone"} THEN <<>> ELSE <<request_id>>)
  IN /\ \A i \in 1 .. Len(ids) - 1 : ids[i + 1] = (ids[i] + 1) % IdSpace
     /\ status = "zero" => pipe = <<>> /\ child = "gone"

\* The cyclic event table starts only vehicles that are not parked and ends
\* only parked ones, across the wrap-around too (within one run of the
\* client: a restarted one begins with the first event again).
EventsAlternate ==
  child = "write" =>
    LET e == message[1].event
    IN (e.action = "START_PARKING") = (e.vehicle \notin parked)

\* What an array of the given size holds of a word: all of it, or as much as
\* leaves room for the terminating 0.
Stored(text, word, size) ==
  /\ Len(text) <= Len(word) /\ \A i \in 1 .. Len(text) : text[i] = word[i]
  /\ \/ Len(text) = Len(word) /\ Len(word) < size
     \/ Len(text) = size - 1 /\ Len(word) >= size

\* The port that the value of an entry stands for.
PortOf(word, port) ==
  \E n \in 0 .. Len(word) :
    LET number == strtol[SubSeq(word, 1, n)]
    IN /\ Stored(SubSeq(word, 1, n), word, CONFIG_MAX_VALUE_LENGTH)
       /\ port = IF number.errno \/ number.rest THEN DefaultPort
                 ELSE number.value % (UINT16_MAX + 1)

\* What the file says: the entries written in it, those that set the port, and
\* the value of the first of these.
AsWritten(file) ==
  LET config == config_load(file)
      written == {i \in DOMAIN file : IsEntry(file[i])}
      ports == {i \in written : Stored(ServerPort, file[i].key,
                                      CONFIG_MAX_KEY_LENGTH)}
      port == load_bbg_client_configuration(config)
  IN IF Cardinality(written) > CONFIG_MAX_ENTRIES THEN config.status = -1
     ELSE /\ config.status = 0
          /\ IF ports = {} THEN port = DefaultPort
             ELSE PortOf(file[Min(ports)].value, port)

AllAsWritten == \A file \in SampleFiles : AsWritten(file)

\* config_load refuses a file exactly when it has too many entries; otherwise
\* the port is the number in the first server_port entry, as far as it fits
\* into its array and modulo 2^16, however wide int and long are; and it is the
\* default when there is no such entry or strtol() finds no number, a number
\* out of the range of long, or something behind it.
ConfigurationAsWritten == main = "config" => AllAsWritten

\* main waits for a response that the server will not send: recv() has no
\* timeout, and TcpServer keeps the connection of a request it dropped.
BlockedInRecv == main = "recv" /\ server = "silent"

\* Neither process outlives the other: the end of the I2C process reaches main
\* as end of file, the end of main reaches the I2C process as SIGPIPE.  Only a
\* silent server can keep main from noticing.
EndTogether ==
  /\ child = "gone" ~> main = "gone" \/ BlockedInRecv \/ child = "off"
  /\ main = "gone" ~> child \in {"off", "gone"}

\* The generator is held up by a full pipe only for as long as main works on
\* the requests before; only a silent server stops it for good.
BlocksOnlyInRecv == child = "write" ~> child # "write" \/ BlockedInRecv

\* "keeps the application running as a background service"
\* (BbgClient/Systemd/bbg-client.service:5): a service whose main process has
\* ended runs again.  One failed I2C read refutes it: both processes end with
\* status 0, which Restart=on-failure does not count as a failure.
KeepsRunning == supervised /\ main = "gone" ~> main # "gone"

=============================================================================
