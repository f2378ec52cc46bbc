--------------------------- MODULE ParkingDatabase ---------------------------
(***************************************************************************)
(* The parking data: Database's process_database_request and the two       *)
(* handlers behind it, on top of Libraries/SQLiteDatabase, while           *)
(* PriceUpdater changes the city table from another process.               *)
(*                                                                         *)
(* Every SQL statement is an autocommit transaction of its own, so it is   *)
(* one action: find_city, then start_parking's three statements, then      *)
(* stop_parking's two, with PriceUpdater's statements anywhere in between. *)
(* No busy timeout is set, so a statement of Database can also fail        *)
(* because PriceUpdater holds the file lock (Busy).                        *)
(*                                                                         *)
(* Requests come one at a time: only the response writer thread processes  *)
(* them.  Coordinates are points and the area of a city is a set of them;  *)
(* times are client clock readings in seconds and may go backwards.        *)
(***************************************************************************)
EXTENDS Integers, Sequences, FiniteSets

CONSTANTS Vehicles,      \* vehicle numbers
          CityNames,     \* names PriceUpdater may use
          Areas,         \* sets of points a city may cover
          Prices,        \* prices per minute
          Times,         \* clock readings clients may send
          SeedCities,    \* the rows sqlite_database_initialize() inserts
          MaxRequests,   \* bound: requests processed
          MaxUpdates,    \* bound: PriceUpdater modifications
          Busy           \* whether statements can fail on a locked file

ASSUME DataAssumption == Prices \subseteq Nat /\ Times \subseteq Nat
ASSUME SeedAssumption ==
  /\ IsFiniteSet(SeedCities)
  /\ SeedCities \subseteq [id : Nat \ {0}, city : CityNames, area : Areas,
                           price : Prices]
  /\ \A r, s \in SeedCities : r.id = s.id => r = s   \* PRIMARY KEY

Points == UNION Areas
Null == -1               \* NULL in end_time and cost
NoCity == "no city"

Actions == {"START_PARKING", "END_PARKING", "ACKNOWLEDGE"}
Requests == [action : Actions, vehicle : Vehicles, point : Points, time : Times]

VARIABLES cities,     \* parking_cities: a set of rows
          sessions,   \* parking_sessions: row i has id i
          job,        \* the request being processed
          answer,     \* status of the last response
          tally,      \* history: successful starts and ends answered
          requested, updated,  \* bounds: how many so far
          withdrawn   \* history: ids of the cities deleted since the request
                      \* in progress began

vars == <<cities, sessions, job, answer, tally, requested, updated, withdrawn>>

-----------------------------------------------------------------------------
NoJob == [pc |-> "idle", vehicle |-> NoCity, point |-> NoCity, time |-> 0,
          city_id |-> 0, price |-> 0, session |-> 0]

Active(v) == {i \in 1 .. Len(sessions) : /\ sessions[i].vehicle = v
                                         /\ sessions[i].end_time = Null}

Closed == {i \in 1 .. Len(sessions) : sessions[i].end_time # Null}

\* Mutant: only complete minutes are charged.
CompleteMinutes(seconds) == seconds \div 60

\* (duration_seconds + 59) / 60
StartedMinutes(seconds) == (seconds + 59) \div 60

Init ==
  /\ cities = SeedCities
  /\ sessions = <<>>
  /\ job = NoJob
  /\ answer = "none"
  /\ tally = [started |-> 0, ended |-> 0]
  /\ requested = 0 /\ updated = 0 /\ withdrawn = {}

-----------------------------------------------------------------------------
(* process_database_request.                                               *)

Answer(status) == job' = NoJob /\ answer' = status

Begin(req) ==
  /\ job.pc = "idle" /\ requested < MaxRequests
  /\ requested' = requested + 1 /\ withdrawn' = {}
  /\ LET step(pc) == /\ job' = [NoJob EXCEPT !.pc = pc, !.vehicle = req.vehicle,
                                             !.point = req.point,
                                             !.time = req.time]
                     /\ answer' = "none"
     IN \/ req.action = "START_PARKING" /\ step("find")
        \/ req.action = "END_PARKING" /\ step("select")
        \/ req.action = "ACKNOWLEDGE" /\ Answer("INVALID_REQUEST")
  /\ UNCHANGED <<cities, sessions, tally, updated>>

\* Mutant: any row is taken, wherever the point is.
FindAnyCity ==
  /\ job.pc = "find"
  /\ \/ \E r \in cities :
          /\ job' = [job EXCEPT !.pc = "check", !.city_id = r.id]
          /\ UNCHANGED answer
     \/ (cities = {} \/ Busy) /\ Answer("INVALID_REQUEST")
  /\ UNCHANGED <<cities, sessions, tally, requested, updated, withdrawn>>

\* sqlite_database_find_city: any row whose area contains the point.
FindCity ==
  /\ job.pc = "find"
  /\ LET rows == {r \in cities : job.point \in r.area}
     IN \/ \E r \in rows :
             /\ job' = [job EXCEPT !.pc = "check", !.city_id = r.id]
             /\ UNCHANGED answer
        \/ (rows = {} \/ Busy) /\ Answer("INVALID_REQUEST")
  /\ UNCHANGED <<cities, sessions, tally, requested, updated, withdrawn>>

\* Mutant: the vehicle's active session is not looked for.
CheckNothing ==
  /\ job.pc = "check"
  /\ \/ /\ job.city_id > 0 /\ job.time > 0
        /\ job' = [job EXCEPT !.pc = "price"]
        /\ UNCHANGED answer
     \/ /\ job.city_id <= 0 \/ job.time <= 0 \/ Busy
        /\ Answer("DATABASE_ERROR")
  /\ UNCHANGED <<cities, sessions, tally, requested, updated, withdrawn>>

\* Mutant: the session is inserted without a price.
CheckSkipsPrice ==
  /\ job.pc = "check"
  /\ \/ /\ job.city_id > 0 /\ job.time > 0 /\ Active(job.vehicle) = {}
        /\ job' = [job EXCEPT !.pc = "insert"]
        /\ UNCHANGED answer
     \/ /\ job.city_id <= 0 \/ job.time <= 0 \/ Active(job.vehicle) # {} \/ Busy
        /\ Answer("DATABASE_ERROR")
  /\ UNCHANGED <<cities, sessions, tally, requested, updated, withdrawn>>

\* sqlite_database_start_parking, arguments and first statement.
CheckActive ==
  /\ job.pc = "check"
  /\ \/ /\ job.city_id > 0 /\ job.time > 0 /\ Active(job.vehicle) = {}
        /\ job' = [job EXCEPT !.pc = "price"]
        /\ UNCHANGED answer
     \/ /\ job.city_id <= 0 \/ job.time <= 0 \/ Active(job.vehicle) # {} \/ Busy
        /\ Answer("DATABASE_ERROR")
  /\ UNCHANGED <<cities, sessions, tally, requested, updated, withdrawn>>

\* Its second statement: the city may be gone by now.
ReadPrice ==
  /\ job.pc = "price"
  /\ LET rows == {r \in cities : r.id = job.city_id}
     IN \/ \E r \in rows :
             /\ job' = [job EXCEPT !.pc = "insert", !.price = r.price]
             /\ UNCHANGED answer
        \/ (rows = {} \/ Busy) /\ Answer("DATABASE_ERROR")
  /\ UNCHANGED <<cities, sessions, tally, requested, updated, withdrawn>>

\* Its third statement, and the response.
InsertSession ==
  /\ job.pc = "insert"
  /\ \/ /\ sessions' = Append(sessions, [vehicle |-> job.vehicle,
                                         city_id |-> job.city_id,
                                         price |-> job.price,
                                         start_time |-> job.time,
                                         end_time |-> Null,
                                         cost |-> Null])
        /\ tally' = [tally EXCEPT !.started = @ + 1]
        /\ Answer("SUCCESS")
     \/ /\ Busy
        /\ Answer("DATABASE_ERROR")
        /\ UNCHANGED <<sessions, tally>>
  /\ UNCHANGED <<cities, requested, updated, withdrawn>>

Latest(ids) == CHOOSE i \in ids : \A j \in ids : j <= i

\* sqlite_database_stop_parking, arguments and first statement.
SelectActive ==
  /\ job.pc = "select"
  /\ LET ids == Active(job.vehicle)
         s == sessions[Latest(ids)]
     IN \/ /\ job.time > 0 /\ ids # {} /\ job.time >= s.start_time
           /\ job' = [job EXCEPT !.pc = "update", !.session = Latest(ids),
                                 !.price = s.price]
           /\ UNCHANGED answer
        \/ /\ \/ job.time <= 0 \/ ids = {} \/ Busy
              \/ ids # {} /\ job.time < s.start_time
           /\ Answer("VEHICLE_NOT_FOUND")
  /\ UNCHANGED <<cities, sessions, tally, requested, updated, withdrawn>>

\* Mutant: the session is repriced at its end.
UpdateReprices ==
  /\ job.pc = "update"
  /\ LET s == sessions[job.session]
         now == {r.price : r \in {c \in cities : c.id = s.city_id}}
     IN \E price \in IF now = {} THEN {job.price} ELSE now :
          sessions' = [sessions EXCEPT
            ![job.session].end_time = job.time,
            ![job.session].price = price,
            ![job.session].cost = StartedMinutes(job.time - s.start_time) * price]
  /\ tally' = [tally EXCEPT !.ended = @ + 1]
  /\ Answer("SUCCESS")
  /\ UNCHANGED <<cities, requested, updated, withdrawn>>

\* Its second statement, and the response.
UpdateSession ==
  /\ job.pc = "update"
  /\ \/ /\ LET seconds == job.time - sessions[job.session].start_time
           IN sessions' = [sessions EXCEPT
                ![job.session].end_time = job.time,
                ![job.session].cost = StartedMinutes(seconds) * job.price]
        /\ tally' = [tally EXCEPT !.ended = @ + 1]
        /\ Answer("SUCCESS")
     \/ /\ Busy
        /\ Answer("VEHICLE_NOT_FOUND")
        /\ UNCHANGED <<sessions, tally>>
  /\ UNCHANGED <<cities, requested, updated, withdrawn>>

Process ==
  \/ FindCity \/ CheckActive \/ ReadPrice \/ InsertSession
  \/ SelectActive \/ UpdateSession

-----------------------------------------------------------------------------
(* PriceUpdater: one statement each; a refused one changes nothing.        *)

\* id INTEGER PRIMARY KEY: one more than the largest id in the table.
NextId == IF cities = {} THEN 1
          ELSE 1 + Latest({r.id : r \in cities})

AddCity(name, area, price) ==
  /\ updated < MaxUpdates
  /\ \A r \in cities : r.city # name
  /\ cities' = cities \cup {[id |-> NextId, city |-> name, area |-> area,
                             price |-> price]}
  /\ updated' = updated + 1
  /\ UNCHANGED <<sessions, job, answer, tally, requested, withdrawn>>

UpdateCityPrice(name, price) ==
  /\ updated < MaxUpdates
  /\ \E r \in cities : /\ r.city = name
                       /\ cities' = (cities \ {r}) \cup
                                    {[r EXCEPT !.price = price]}
  /\ updated' = updated + 1
  /\ UNCHANGED <<sessions, job, answer, tally, requested, withdrawn>>

DeleteCity(name) ==
  /\ updated < MaxUpdates
  /\ \E r \in cities :
       /\ r.city = name
       /\ cities' = cities \ {r}
       /\ withdrawn' = IF job.pc = "idle" THEN {} ELSE withdrawn \cup {r.id}
  /\ updated' = updated + 1
  /\ UNCHANGED <<sessions, job, answer, tally, requested>>

PriceUpdater ==
  \E name \in CityNames :
    \/ \E area \in Areas, price \in Prices : AddCity(name, area, price)
    \/ \E price \in Prices : UpdateCityPrice(name, price)
    \/ DeleteCity(name)

Next == (\E req \in Requests : Begin(req)) \/ Process \/ PriceUpdater

Spec == Init /\ [][Next]_vars

-----------------------------------------------------------------------------
\* Type correctness of the two tables and of the request in progress.
TypeOK ==
  /\ cities \subseteq [id : Nat \ {0}, city : CityNames, area : Areas,
                       price : Prices]
  /\ sessions \in Seq([vehicle : Vehicles, city_id : Nat \ {0}, price : Prices,
                       start_time : Times, end_time : Times \cup {Null},
                       cost : Int])
  /\ job.pc \in {"idle", "find", "check", "price", "insert", "select", "update"}
  /\ job.pc # "idle" => job.vehicle \in Vehicles /\ job.time \in Times
  /\ job.pc \in {"check", "price", "insert"} => job.city_id \in Nat
  /\ job.pc \in {"insert", "update"} => job.price \in Prices
  /\ tally \in [started : Nat, ended : Nat]
  /\ withdrawn \subseteq Nat \ {0}

\* A vehicle has at most one session without an end_time, although the check
\* and the INSERT of start_parking are separate transactions.
OneActiveSession == \A v \in Vehicles : Cardinality(Active(v)) <= 1

\* "Every started parking minute is charged as a complete minute"
\* (sqlite_database.c:1024): the cost of a finished session is the price stored
\* with it times the least number of minutes that covers the parking time.
ChargedPerStartedMinute ==
  \A i \in 1 .. Len(sessions) :
    LET s == sessions[i]
    IN s.end_time # Null =>
         \E m \in 0 .. s.end_time - s.start_time :
           /\ s.cost = m * s.price
           /\ 60 * m >= s.end_time - s.start_time
           /\ 60 * (m - 1) < s.end_time - s.start_time

\* A row is written when the session starts and once more when it ends; no
\* later price update, deletion or request touches it.  In particular the
\* price is frozen for an active session (SQLiteDatabase/README.md:68).
SessionsOnlyClose ==
  [][/\ Len(sessions') >= Len(sessions)
     /\ \A i \in 1 .. Len(sessions) :
          \/ sessions'[i] = sessions[i]
          \/ /\ sessions[i].end_time = Null /\ sessions'[i].end_time # Null
             /\ \A f \in {"vehicle", "city_id", "price", "start_time"} :
                  sessions'[i][f] = sessions[i][f]]_vars

\* The responses and the table agree: as many sessions as successful starts,
\* as many closed ones as successful ends, whichever statements failed.
SuccessMeansStored ==
  /\ Len(sessions) = tally.started
  /\ Cardinality(Closed) = tally.ended

\* VEHICLE_NOT_FOUND, "Vehicle was not found" (BbgClient/Src/bbg_client.c:281),
\* is answered only for a vehicle that is not parked.
NotFoundMeansNotParked ==
  [][answer' = "VEHICLE_NOT_FOUND" /\ job.pc \in {"select", "update"}
       => Active(job.vehicle) = {}]_vars

\* A session starts at a price that parking costs at that moment where the
\* vehicle is ("Finds the parking city using the received coordinates",
\* database.cpp:986), although find_city and the price statement are separate
\* transactions and PriceUpdater changes prices and adds cities in between.
\* Only the deletion of the city that was found breaks the link: its id may
\* belong to another city by then, whose price is taken without an error.
PricedByLocation ==
  [][job.pc = "price" /\ job'.pc = "insert"
       => \/ \E r \in cities : job.point \in r.area /\ r.price = job'.price
          \/ job.city_id \in withdrawn]_vars

-----------------------------------------------------------------------------
(* The refinement mapping.  A ticket is a row of parking_sessions, its      *)
(* number the row's id; a price is quoted once it has been read.           *)

Asked(pc) == IF pc \in {"select", "update"} THEN "END_PARKING"
             ELSE "START_PARKING"

RequestOf(j) ==
  [action |-> IF j.pc = "idle" THEN "none" ELSE Asked(j.pc),
   vehicle |-> j.vehicle, point |-> j.point, time |-> j.time]

TicketOf(i) == [ticket |-> i, since |-> sessions[i].start_time,
                price |-> sessions[i].price]

BillOf(i) == [ticket |-> i, vehicle |-> sessions[i].vehicle,
              from |-> sessions[i].start_time, until |-> sessions[i].end_time,
              cost |-> sessions[i].cost]

Request == RequestOf(job)

Quoted == IF job.pc = "insert" THEN job.price ELSE -1

Tariff == {[area |-> r.area, price |-> r.price] : r \in cities}

Tickets == [v \in Vehicles |->
              IF Active(v) = {} THEN [ticket |-> 0, since |-> 0, price |-> 0]
              ELSE TicketOf(Latest(Active(v)))]

Bills == {BillOf(i) : i \in Closed}

Parking == INSTANCE ParkingService WITH
  Zones <- [area : Areas, price : Prices],
  NoRequest <- RequestOf(NoJob), Failing <- Busy,
  request <- Request, quote <- Quoted, zones <- Tariff,
  issued <- Len(sessions), parked <- Tickets, bills <- Bills

\* The handlers with their five separate transactions, the failing statements
\* and the price changes in between are the parking service: a SUCCESS is
\* answered in the very step that issues the ticket or writes the bill, and
\* every refusal leaves the vehicle's ticket as it was.
ImplementsParking == Parking!Spec

=============================================================================
