------------------------ MODULE ParkingDatabaseProofs ------------------------
(***************************************************************************)
(* The parking tables stay correct for any number of requests, vehicles    *)
(* and price changes, whichever statements fail: the proofs behind the     *)
(* properties of ParkingDatabase.                                          *)
(***************************************************************************)
EXTENDS ParkingDatabase, FiniteSetTheorems, SequenceTheorems,
        NaturalsInduction, WellFoundedInduction, TLAPS

-----------------------------------------------------------------------------
(* The inductive invariant.                                                *)

City == [id : Nat \ {0}, city : CityNames, area : Areas, price : Prices]

Session == [vehicle : Vehicles, city_id : Nat \ {0}, price : Prices,
            start_time : Times, end_time : Times \cup {Null}, cost : Int]

Tables ==
  /\ cities \subseteq City /\ IsFiniteSet(cities)
  /\ sessions \in Seq(Session)

\* The request in progress; city and time have been checked before they are
\* written to a session.
JobOK ==
  /\ job \in [pc : {"idle", "find", "check", "price", "insert", "select",
                    "update"},
              vehicle : Vehicles \cup {NoCity}, point : Points \cup {NoCity},
              time : Nat, city_id : Nat, price : Nat, session : Nat]
  /\ job.pc = "idle" => job = NoJob
  /\ job.pc # "idle" => /\ job.vehicle \in Vehicles /\ job.point \in Points
                        /\ job.time \in Times
  /\ job.pc \in {"price", "insert"} => job.city_id # 0
  /\ job.pc \in {"price", "insert", "update"} => job.time > 0
  /\ job.pc \in {"insert", "update"} => job.price \in Prices

Typed == Tables /\ JobOK /\ tally \in [started : Nat, ended : Nat]

\* What start_parking and stop_parking found in the session table is still
\* true at their last statement, for nobody else writes that table.
FoundStillTrue ==
  /\ job.pc \in {"price", "insert"} => Active(job.vehicle) = {}
  /\ job.pc = "update" =>
       /\ job.session \in Active(job.vehicle)
       /\ job.time >= sessions[job.session].start_time
       /\ job.price = sessions[job.session].price

AtMostOneActive == \A v \in Vehicles : \A i, j \in Active(v) : i = j

IInv == /\ Typed /\ FoundStillTrue /\ AtMostOneActive
        /\ ChargedPerStartedMinute /\ SuccessMeansStored

-----------------------------------------------------------------------------
(* Finite sets of numbers.                                                 *)

\* A set of natural numbers that is not empty has a least element.
LEMMA Least ==
  ASSUME NEW S \in SUBSET Nat, S # {}
  PROVE  \E m \in S : \A n \in S : m <= n
<1>1. PICK m \in S : \A n \in S : ~(<<n, m>> \in OpToRel(<, Nat))
  BY NatLessThanWellFounded, WFMin
<1>2. \A n \in S : ~(n < m)
  BY <1>1 DEF OpToRel
<1> QED
  BY <1>2

\* A finite set of natural numbers has an upper bound.  A set without one
\* and with as few elements as possible would have one fewer.
LEMMA Bounded ==
  ASSUME NEW S \in SUBSET Nat, IsFiniteSet(S)
  PROVE  \E n \in Nat : \A x \in S : x <= n
<1> DEFINE Bound(T) == \E n \in Nat : \A x \in T : x <= n
           Bad == {T \in SUBSET S : ~Bound(T)}
           Sizes == {n \in Nat : \E T \in Bad : Cardinality(T) = n}
<1>1. SUFFICES ASSUME ~Bound(S)
               PROVE  FALSE
  OBVIOUS
<1>2. \A T \in SUBSET S : IsFiniteSet(T) /\ Cardinality(T) \in Nat
  BY FS_Subset, FS_CardinalityType
<1>3. Sizes # {} /\ Sizes \in SUBSET Nat
  BY <1>1, <1>2
<1>4. PICK n \in Sizes : \A m \in Sizes : n <= m
  <2> HIDE DEF Sizes
  <2> QED
    BY <1>3, Least
<1>5. PICK T \in Bad : Cardinality(T) = n
  BY <1>4
<1>6. T # {}
  BY 0 \in Nat
<1>7. PICK x \in T : TRUE
  BY <1>6
<1>8. /\ T \ {x} \in SUBSET S
      /\ Cardinality(T \ {x}) = n - 1 /\ Cardinality(T \ {x}) \in Nat
  BY <1>2, <1>5, <1>7, FS_RemoveElement
<1>9. Bound(T \ {x})
  BY <1>4, <1>8
<1>10. PICK b \in Nat : \A y \in T \ {x} : y <= b
  BY <1>9
<1>11. x \in Nat /\ x + b \in Nat /\ \A y \in T : y <= x + b
  BY <1>5, <1>7, <1>10
<1> QED
  BY <1>5, <1>11

\* Latest of a finite set of ids is its largest one.
LEMMA LatestProperty ==
  ASSUME NEW S \in SUBSET Nat, IsFiniteSet(S), S # {}
  PROVE  Latest(S) \in S /\ \A x \in S : x <= Latest(S)
<1> DEFINE Upper == {n \in Nat : \A x \in S : x <= n}
<1>1. Upper # {} /\ Upper \in SUBSET Nat
  BY Bounded
<1>2. PICK m \in Upper : \A n \in Upper : m <= n
  <2> HIDE DEF Upper
  <2> QED
    BY <1>1, Least
<1>3. m \in S
  <2>1. SUFFICES ASSUME m \notin S
                 PROVE  FALSE
    OBVIOUS
  <2>2. \A x \in S : x \in Nat /\ x <= m /\ x # m
    BY <1>2, <2>1
  <2>. PICK y \in S : TRUE
    OBVIOUS
  <2>3. m \in Nat /\ m - 1 \in Nat /\ \A x \in S : x <= m - 1
    BY <1>2, <2>2
  <2>4. m - 1 \in Upper
    BY <2>3
  <2> QED
    BY <1>2, <2>4
<1> QED
  BY <1>2, <1>3 DEF Latest

\* The next id is not 0 and not in use.
LEMMA NextIdType ==
  ASSUME Tables
  PROVE  NextId \in Nat \ {0} /\ \A r \in cities : r.id # NextId
<1> DEFINE ids == {r.id : r \in cities}
           f == [r \in cities |-> r.id]
<1>1. CASE cities = {}
  BY <1>1 DEF NextId
<1>2. CASE cities # {}
  <2>1. f \in Surjection(cities, ids)
    BY DEF Surjection
  <2>2. IsFiniteSet(ids)
    <3> HIDE DEF f, ids
    <3> QED
      BY <2>1, FS_Surjection DEF Tables
  <2>3. ids \in SUBSET Nat /\ ids # {}
    BY <1>2 DEF Tables, City
  <2>4. Latest(ids) \in Nat /\ \A i \in ids : i <= Latest(ids)
    <3> HIDE DEF ids
    <3> QED
      BY <2>2, <2>3, LatestProperty
  <2>5. NextId = 1 + Latest(ids)
    BY <1>2 DEF NextId
  <2>6. \A r \in cities : r.id <= Latest(ids) /\ r.id \in Nat
    BY <2>4 DEF Tables, City
  <2> QED
    BY <2>4, <2>5, <2>6
<1> QED
  BY <1>1, <1>2

-----------------------------------------------------------------------------
(* Types.                                                                  *)

\* The seeded city table and the empty session table are well formed.
LEMMA TypedInit == Init => Typed
<1> SUFFICES ASSUME Init
             PROVE  Typed
  OBVIOUS
<1>1. Tables
  BY SeedAssumption, EmptySeq DEF Init, Tables, City
<1>2. JobOK
  BY DEF Init, JobOK, NoJob
<1> QED
  BY <1>1, <1>2 DEF Init, Typed

\* The number of minutes charged is the least one that covers the time.
LEMMA Minutes ==
  ASSUME NEW d \in Nat
  PROVE  /\ StartedMinutes(d) \in 0 .. d
         /\ 60 * StartedMinutes(d) >= d /\ 60 * (StartedMinutes(d) - 1) < d
BY DEF StartedMinutes

\* The last statement of stop_parking writes exactly one row.
LEMMA UpdateSuccess ==
  ASSUME Typed, FoundStillTrue, UpdateSession, answer' = "SUCCESS"
  PROVE  /\ job.session \in 1 .. Len(sessions)
         /\ job.time - sessions[job.session].start_time \in Nat
         /\ sessions[job.session].end_time = Null
         /\ sessions' \in Seq(Session) /\ Len(sessions') = Len(sessions)
         /\ \A j \in 1 .. Len(sessions) : j # job.session =>
              sessions'[j] = sessions[j]
         /\ sessions'[job.session].end_time = job.time
         /\ sessions'[job.session].end_time # Null
         /\ sessions'[job.session].cost =
              StartedMinutes(job.time - sessions[job.session].start_time)
                * sessions[job.session].price
         /\ \A f \in {"vehicle", "city_id", "price", "start_time"} :
              sessions'[job.session][f] = sessions[job.session][f]
<1>1. /\ job.session \in 1 .. Len(sessions)
      /\ sessions[job.session].vehicle = job.vehicle
      /\ sessions[job.session].end_time = Null
      /\ job.time >= sessions[job.session].start_time
      /\ job.price = sessions[job.session].price
      /\ job.price \in Prices /\ job.time \in Times
  BY DEF FoundStillTrue, Active, Typed, JobOK, UpdateSession
<1>2. sessions[job.session] \in Session
  BY <1>1, ElementOfSeq DEF Typed, Tables
<1>3. job.time - sessions[job.session].start_time \in Nat
  <2>1. sessions[job.session].start_time \in Times
    BY <1>2 DEF Session
  <2>2. sessions[job.session].start_time \in Nat /\ job.time \in Nat
    BY <1>1, <2>1, DataAssumption
  <2> QED
    BY <1>1, <2>2
<1>4. StartedMinutes(job.time - sessions[job.session].start_time)
        * job.price \in Int
  <2> DEFINE m == StartedMinutes(job.time - sessions[job.session].start_time)
  <2>1. m \in Nat
    BY <1>3, Minutes
  <2>2. job.price \in Nat
    BY <1>1, DataAssumption
  <2> HIDE DEF m
  <2>3. m * job.price \in Int
    BY <2>1, <2>2
  <2> QED
    BY <2>3 DEF m
<1> DEFINE cost == StartedMinutes(job.time - sessions[job.session].start_time)
                     * job.price
           e == [sessions[job.session] EXCEPT !.end_time = job.time,
                                              !.cost = cost]
<1>5. e \in Session
  <2>1. cost \in Int
    BY <1>4
  <2> HIDE DEF cost
  <2> QED
    BY <1>1, <1>2, <2>1 DEF Session
<1>6. sessions' = [sessions EXCEPT ![job.session] = e]
  BY DEF UpdateSession, Answer
<1>7. sessions \in Seq(Session)
  BY DEF Typed, Tables
<1> HIDE DEF e
<1>8. /\ sessions' \in Seq(Session) /\ Len(sessions') = Len(sessions)
      /\ \A j \in 1 .. Len(sessions) : j # job.session =>
           sessions'[j] = sessions[j]
      /\ sessions'[job.session] = e
  BY <1>1, <1>5, <1>6, <1>7, ExceptSeq
<1>9. /\ e.end_time = job.time /\ e.cost = cost
      /\ \A f \in {"vehicle", "city_id", "price", "start_time"} :
           e[f] = sessions[job.session][f]
  BY <1>2 DEF e, Session
<1>10. job.time # Null
  BY <1>1, DataAssumption DEF Null
<1> QED
  BY <1>1, <1>3, <1>8, <1>9, <1>10

\* The active session that stop_parking selects is one.
LEMMA LatestActive ==
  ASSUME Tables, NEW v, Active(v) # {}
  PROVE  Latest(Active(v)) \in Active(v)
<1>1. Len(sessions) \in Nat
  BY DEF Tables
<1>2. Active(v) \in SUBSET (1 .. Len(sessions)) /\ Active(v) \in SUBSET Nat
  BY <1>1 DEF Active
<1>3. IsFiniteSet(Active(v))
  <2>1. IsFiniteSet(1 .. Len(sessions))
    BY <1>1, FS_Interval
  <2> QED
    BY <1>2, <2>1, FS_Subset
<1> QED
  BY <1>2, <1>3, LatestProperty

\* An answer ends the job.
LEMMA Answered ==
  ASSUME NEW status, Answer(status)
  PROVE  JobOK' /\ job'.pc = "idle"
BY DEF Answer, JobOK, NoJob

\* The new row of start_parking.
LEMMA InsertSuccess ==
  ASSUME Typed, InsertSession, answer' = "SUCCESS"
  PROVE  \E e \in Session :
           /\ e.vehicle = job.vehicle /\ e.end_time = Null
           /\ sessions' = Append(sessions, e)
           /\ sessions' \in Seq(Session)
           /\ Len(sessions') = Len(sessions) + 1
           /\ \A i \in 1 .. Len(sessions) : sessions'[i] = sessions[i]
           /\ sessions'[Len(sessions) + 1] = e
<1> DEFINE e == [vehicle |-> job.vehicle, city_id |-> job.city_id,
                 price |-> job.price, start_time |-> job.time,
                 end_time |-> Null, cost |-> Null]
<1>1. e \in Session
  BY DEF InsertSession, Typed, JobOK, Session, Null
<1>2. sessions' = Append(sessions, e)
  BY DEF InsertSession, Answer
<1>3. e.vehicle = job.vehicle /\ e.end_time = Null
  OBVIOUS
<1> HIDE DEF e
<1>4. sessions \in Seq(Session)
  BY DEF Typed, Tables
<1> QED
  BY <1>1, <1>2, <1>3, <1>4, AppendProperties

\* Every statement keeps the tables and the request well formed.
LEMMA TypedNext == Typed /\ FoundStillTrue /\ [Next]_vars => Typed'
<1> SUFFICES ASSUME Typed, FoundStillTrue, [Next]_vars
             PROVE  Typed'
  OBVIOUS
<1> USE DEF Typed
<1>1. CASE UNCHANGED vars
  BY <1>1 DEF vars, Tables, JobOK
<1>2. ASSUME NEW req \in Requests, Begin(req)
      PROVE  Typed'
  <2>1. Tables' /\ tally' = tally
    BY <1>2 DEF Begin, Tables
  <2>2. JobOK'
    <3>1. CASE req.action = "ACKNOWLEDGE"
      BY <1>2, <3>1, Answered DEF Begin
    <3>2. CASE req.action # "ACKNOWLEDGE"
      <4>1. PICK pc \in {"find", "select"} :
              job' = [NoJob EXCEPT !.pc = pc, !.vehicle = req.vehicle,
                                   !.point = req.point, !.time = req.time]
        BY <1>2, <3>2 DEF Begin
      <4>2. job' = [pc |-> pc, vehicle |-> req.vehicle, point |-> req.point,
                    time |-> req.time, city_id |-> 0, price |-> 0,
                    session |-> 0]
        BY <4>1 DEF NoJob
      <4> QED
        BY <4>2, DataAssumption DEF Requests, JobOK
    <3> QED
      BY <3>1, <3>2
  <2> QED
    BY <2>1, <2>2
<1>3. CASE FindCity
  <2>1. Tables' /\ tally' = tally
    BY <1>3 DEF FindCity, Tables
  <2>2. JobOK'
    BY <1>3, Answered DEF FindCity, JobOK, Tables, City
  <2> QED
    BY <2>1, <2>2
<1>4. CASE CheckActive
  <2>1. Tables' /\ tally' = tally
    BY <1>4 DEF CheckActive, Tables
  <2>2. JobOK'
    BY <1>4, Answered DEF CheckActive, JobOK
  <2> QED
    BY <2>1, <2>2
<1>5. CASE ReadPrice
  <2>1. Tables' /\ tally' = tally
    BY <1>5 DEF ReadPrice, Tables
  <2>2. JobOK'
    BY <1>5, Answered, DataAssumption DEF ReadPrice, JobOK, Tables, City
  <2> QED
    BY <2>1, <2>2
<1>6. CASE InsertSession
  <2>1. Tables'
    BY <1>6, InsertSuccess DEF InsertSession, Tables, Answer
  <2>2. JobOK'
    BY <1>6, Answered DEF InsertSession
  <2>3. tally' \in [started : Nat, ended : Nat]
    BY <1>6 DEF InsertSession
  <2> QED
    BY <2>1, <2>2, <2>3
<1>7. CASE SelectActive
  <2>1. Tables' /\ tally' = tally
    BY <1>7 DEF SelectActive, Tables
  <2>2. JobOK'
    <3>1. CASE job'.pc = "update"
      <4> DEFINE i == Latest(Active(job.vehicle))
      <4>1. /\ job' = [job EXCEPT !.pc = "update", !.session = i,
                                  !.price = sessions[i].price]
            /\ Active(job.vehicle) # {} /\ job.time > 0
        BY <1>7, <3>1, Answered DEF SelectActive
      <4>2. i \in Active(job.vehicle)
        BY <4>1, LatestActive
      <4>3. i \in 1 .. Len(sessions)
        BY <4>2 DEF Active
      <4> HIDE DEF i
      <4>4. sessions[i] \in Session
        BY <4>3, ElementOfSeq DEF Tables
      <4>5. sessions[i].price \in Prices /\ i \in Nat
        BY <4>3, <4>4 DEF Session, Tables
      <4>6. job.pc = "select"
        BY <1>7 DEF SelectActive
      <4> QED
        BY <4>1, <4>5, <4>6, DataAssumption DEF JobOK
    <3>2. CASE job'.pc # "update"
      <4>1. Answer("VEHICLE_NOT_FOUND") \/ job'.pc = "update"
        BY <1>7 DEF SelectActive, JobOK
      <4> QED
        BY <3>2, <4>1, Answered
    <3> QED
      BY <3>1, <3>2
  <2> QED
    BY <2>1, <2>2
<1>8. CASE UpdateSession
  <2>1. Tables'
    <3>1. sessions' \in Seq(Session)
      <4>1. CASE sessions' = sessions
        BY <4>1 DEF Tables
      <4>2. CASE answer' = "SUCCESS"
        BY <1>8, <4>2, UpdateSuccess
      <4> QED
        BY <1>8, <4>1, <4>2 DEF UpdateSession, Answer
    <3> QED
      BY <1>8, <3>1 DEF UpdateSession, Tables
  <2>2. JobOK'
    BY <1>8, Answered DEF UpdateSession
  <2>3. tally' \in [started : Nat, ended : Nat]
    BY <1>8 DEF UpdateSession
  <2> QED
    BY <2>1, <2>2, <2>3
<1>9. ASSUME NEW name \in CityNames, NEW area \in Areas, NEW price \in Prices,
             AddCity(name, area, price)
      PROVE  Typed'
  <2>1. NextId \in Nat \ {0}
    BY NextIdType
  <2>2. [id |-> NextId, city |-> name, area |-> area, price |-> price] \in City
    BY <2>1 DEF City
  <2>3. Tables'
    BY <1>9, <2>2, FS_AddElement DEF AddCity, Tables
  <2> QED
    BY <1>9, <2>3 DEF AddCity, JobOK
<1>10. ASSUME NEW name \in CityNames, NEW price \in Prices,
              UpdateCityPrice(name, price)
       PROVE  Typed'
  <2>1. PICK r \in cities : cities' = (cities \ {r}) \cup
                                      {[r EXCEPT !.price = price]}
    BY <1>10 DEF UpdateCityPrice
  <2>2. r \in City
    BY DEF Tables
  <2>3. [r EXCEPT !.price = price] \in City
    BY <2>2 DEF City
  <2>4. Tables'
    BY <1>10, <2>1, <2>3, FS_AddElement, FS_RemoveElement
       DEF UpdateCityPrice, Tables
  <2> QED
    BY <1>10, <2>4 DEF UpdateCityPrice, JobOK
<1>11. ASSUME NEW name \in CityNames, DeleteCity(name)
       PROVE  Typed'
  <2>1. Tables'
    BY <1>11, FS_RemoveElement DEF DeleteCity, Tables
  <2> QED
    BY <1>11, <2>1 DEF DeleteCity, JobOK
<1> QED
  BY <1>1, <1>2, <1>3, <1>4, <1>5, <1>6, <1>7, <1>8, <1>9, <1>10, <1>11
     DEF Next, Process, PriceUpdater

-----------------------------------------------------------------------------
(* The session table.                                                      *)

\* Only the last statements of start_parking and stop_parking write to it.
LEMMA Writers ==
  ASSUME [Next]_vars
  PROVE  \/ InsertSession /\ answer' = "SUCCESS"
         \/ UpdateSession /\ answer' = "SUCCESS"
         \/ sessions' = sessions /\ tally' = tally
<1>1. CASE UNCHANGED vars
  BY <1>1 DEF vars
<1>2. CASE \E req \in Requests : Begin(req)
  BY <1>2 DEF Begin
<1>3. CASE Process
  BY <1>3 DEF Process, FindCity, CheckActive, ReadPrice, SelectActive,
                InsertSession, UpdateSession, Answer
<1>4. CASE PriceUpdater
  BY <1>4 DEF PriceUpdater, AddCity, UpdateCityPrice, DeleteCity
<1> QED
  BY <1>1, <1>2, <1>3, <1>4 DEF Next

\* How the set of active sessions of a vehicle changes.
LEMMA ActiveChanges ==
  ASSUME Typed, FoundStillTrue, [Next]_vars, NEW v
  PROVE  \/ sessions' = sessions /\ Active(v)' = Active(v)
         \/ /\ InsertSession
            /\ Active(v)' = IF v = job.vehicle THEN {Len(sessions) + 1}
                            ELSE Active(v)
         \/ /\ UpdateSession
            /\ Active(v)' = Active(v) \ {job.session}
<1>0. sessions \in Seq(Session) /\ Len(sessions) \in Nat
  BY DEF Typed, Tables
<1>1. CASE sessions' = sessions
  BY <1>1 DEF Active
<1>2. CASE InsertSession /\ answer' = "SUCCESS"
  <2>1. Active(job.vehicle) = {}
    BY <1>2 DEF InsertSession, FoundStillTrue
  <2>2. PICK e \in Session :
           /\ e.vehicle = job.vehicle /\ e.end_time = Null
           /\ Len(sessions') = Len(sessions) + 1
           /\ \A i \in 1 .. Len(sessions) : sessions'[i] = sessions[i]
           /\ sessions'[Len(sessions) + 1] = e
    BY <1>2, InsertSuccess
  <2>3. CASE v = job.vehicle
    <3>1. Active(v)' = {Len(sessions) + 1}
      BY <1>0, <2>1, <2>2, <2>3 DEF Active
    <3> QED
      BY <1>2, <2>3, <3>1
  <2>4. CASE v # job.vehicle
    <3>1. Active(v)' = Active(v)
      BY <1>0, <2>2, <2>4 DEF Active
    <3> QED
      BY <1>2, <2>4, <3>1
  <2> QED
    BY <2>3, <2>4
<1>3. CASE UpdateSession /\ answer' = "SUCCESS"
  <2> DEFINE k == job.session
  <2>1. /\ k \in 1 .. Len(sessions) /\ Len(sessions') = Len(sessions)
        /\ \A j \in 1 .. Len(sessions) : j # k => sessions'[j] = sessions[j]
        /\ sessions'[k].end_time # Null
    BY <1>3, UpdateSuccess
  <2> HIDE DEF k
  <2>2. Active(v)' = Active(v) \ {k}
    BY <2>1 DEF Active
  <2> QED
    BY <1>3, <2>2 DEF k
<1> QED
  BY <1>1, <1>2, <1>3, Writers

\* Every statement keeps at most one active session per vehicle, and what was
\* found in the table stays true until it is used.
LEMMA SessionsNext ==
  ASSUME Typed, FoundStillTrue, AtMostOneActive, [Next]_vars
  PROVE  FoundStillTrue' /\ AtMostOneActive'
<1>1. AtMostOneActive'
  BY ActiveChanges DEF AtMostOneActive
<1>2. FoundStillTrue'
  <2>1. CASE job'.pc \notin {"price", "insert", "update"}
    BY <2>1 DEF FoundStillTrue
  <2>2. CASE job'.pc \in {"price", "insert", "update"}
    <3>1. CASE job' = job
      <4>1. sessions' = sessions
        BY <2>2, <3>1, Writers, Answered DEF InsertSession, UpdateSession
      <4> QED
        BY <3>1, <4>1 DEF FoundStillTrue, Active
    <3>2. CASE CheckActive
      <4>1. /\ job'.pc = "price" /\ job'.vehicle = job.vehicle
            /\ Active(job.vehicle) = {} /\ sessions' = sessions
        BY <2>2, <3>2, Answered DEF CheckActive, Typed, JobOK
      <4> QED
        BY <4>1 DEF FoundStillTrue, Active
    <3>3. CASE ReadPrice
      <4>1. /\ job'.pc = "insert" /\ job'.vehicle = job.vehicle
            /\ Active(job.vehicle) = {} /\ sessions' = sessions
        BY <2>2, <3>3, Answered DEF ReadPrice, FoundStillTrue, Typed, JobOK
      <4> QED
        BY <4>1 DEF FoundStillTrue, Active
    <3>4. CASE SelectActive
      <4> DEFINE i == Latest(Active(job.vehicle))
      <4>1. /\ job' = [job EXCEPT !.pc = "update", !.session = i,
                                  !.price = sessions[i].price]
            /\ Active(job.vehicle) # {} /\ sessions' = sessions
            /\ job.time >= sessions[i].start_time
        BY <2>2, <3>4, Answered DEF SelectActive
      <4>2. i \in Active(job.vehicle)
        BY <4>1, LatestActive DEF Typed
      <4> HIDE DEF i
      <4>3. /\ job'.vehicle = job.vehicle /\ job'.time = job.time
            /\ job'.session = i /\ job'.price = sessions[i].price
            /\ job'.pc = "update"
        BY <4>1 DEF Typed, JobOK
      <4>4. Active(job.vehicle)' = Active(job.vehicle)
        BY <4>1, <4>3 DEF Active
      <4> QED
        BY <4>1, <4>2, <4>3, <4>4 DEF FoundStillTrue
    <3>5. CASE FindCity
      BY <2>2, <3>5, Answered DEF FindCity, Typed, JobOK
    <3>6. CASE \E req \in Requests : Begin(req)
      BY <2>2, <3>6, Answered DEF Begin, NoJob
    <3>7. CASE InsertSession \/ UpdateSession
      BY <2>2, <3>7, Answered DEF InsertSession, UpdateSession
    <3>8. CASE PriceUpdater \/ UNCHANGED vars
      BY <3>1, <3>8
         DEF PriceUpdater, AddCity, UpdateCityPrice, DeleteCity, vars
    <3> QED
      BY <3>2, <3>3, <3>4, <3>5, <3>6, <3>7, <3>8 DEF Next, Process
  <2> QED
    BY <2>1, <2>2
<1> QED
  BY <1>1, <1>2

\* A row that is closed is closed for good; one that is being closed is
\* charged for the minutes it took.
LEMMA ChargedNext ==
  ASSUME Typed, FoundStillTrue, ChargedPerStartedMinute, [Next]_vars
  PROVE  ChargedPerStartedMinute'
<1>0. sessions \in Seq(Session) /\ Len(sessions) \in Nat
  BY DEF Typed, Tables
<1>1. CASE sessions' = sessions
  BY <1>1 DEF ChargedPerStartedMinute
<1>2. CASE InsertSession /\ answer' = "SUCCESS"
  <2>1. /\ Len(sessions') = Len(sessions) + 1
        /\ \A i \in 1 .. Len(sessions) : sessions'[i] = sessions[i]
        /\ sessions'[Len(sessions) + 1].end_time = Null
    BY <1>2, InsertSuccess
  <2>2. \A i \in 1 .. Len(sessions') :
          i \in 1 .. Len(sessions) \/ i = Len(sessions) + 1
    BY <1>0, <2>1
  <2> QED
    BY <2>1, <2>2 DEF ChargedPerStartedMinute
<1>3. CASE UpdateSession /\ answer' = "SUCCESS"
  <2> DEFINE k == job.session
             d == job.time - sessions[k].start_time
             s == sessions'[k]
  <2>1. /\ d \in Nat /\ Len(sessions') = Len(sessions)
        /\ \A j \in 1 .. Len(sessions) : j # k => sessions'[j] = sessions[j]
        /\ s.end_time - s.start_time = d
        /\ s.cost = StartedMinutes(d) * s.price
    BY <1>3, UpdateSuccess
  <2>2. \E m \in 0 .. d : /\ s.cost = m * s.price
                          /\ 60 * m >= d /\ 60 * (m - 1) < d
    BY <2>1, Minutes
  <2> HIDE DEF k, d
  <2> QED
    BY <2>1, <2>2 DEF ChargedPerStartedMinute
<1> QED
  BY <1>1, <1>2, <1>3, Writers

\* The rows and the answers are counted together.
LEMMA StoredNext ==
  ASSUME Typed, FoundStillTrue, SuccessMeansStored, [Next]_vars
  PROVE  SuccessMeansStored'
<1>0. sessions \in Seq(Session) /\ Len(sessions) \in Nat
  BY DEF Typed, Tables
<1>1. IsFiniteSet(Closed) /\ Cardinality(Closed) \in Nat
  <2>1. IsFiniteSet(1 .. Len(sessions))
    BY <1>0, FS_Interval
  <2>2. Closed \in SUBSET (1 .. Len(sessions))
    BY DEF Closed
  <2> QED
    BY <2>1, <2>2, FS_Subset, FS_CardinalityType
<1>2. CASE sessions' = sessions /\ tally' = tally
  BY <1>2 DEF SuccessMeansStored, Closed
<1>3. CASE InsertSession /\ answer' = "SUCCESS"
  <2>1. /\ Len(sessions') = Len(sessions) + 1
        /\ \A i \in 1 .. Len(sessions) : sessions'[i] = sessions[i]
        /\ sessions'[Len(sessions) + 1].end_time = Null
    BY <1>3, InsertSuccess
  <2>2. Closed' = Closed
    BY <1>0, <2>1 DEF Closed
  <2>3. tally'.started = tally.started + 1 /\ tally'.ended = tally.ended
    BY <1>3 DEF InsertSession, Typed, Answer
  <2> QED
    BY <2>1, <2>2, <2>3 DEF SuccessMeansStored
<1>4. CASE UpdateSession /\ answer' = "SUCCESS"
  <2> DEFINE k == job.session
  <2>1. /\ k \in 1 .. Len(sessions) /\ Len(sessions') = Len(sessions)
        /\ \A j \in 1 .. Len(sessions) : j # k => sessions'[j] = sessions[j]
        /\ sessions[k].end_time = Null /\ sessions'[k].end_time # Null
    BY <1>4, UpdateSuccess
  <2> HIDE DEF k
  <2>2. k \notin Closed /\ Closed' = Closed \cup {k}
    BY <2>1 DEF Closed
  <2>3. Cardinality(Closed') = Cardinality(Closed) + 1
    BY <1>1, <2>2, FS_AddElement
  <2>4. tally'.started = tally.started /\ tally'.ended = tally.ended + 1
    BY <1>4 DEF UpdateSession, Typed, Answer
  <2> QED
    BY <2>1, <2>3, <2>4 DEF SuccessMeansStored
<1> QED
  BY <1>2, <1>3, <1>4, Writers

-----------------------------------------------------------------------------
(* The theorems.                                                           *)

\* The invariant holds before the first request.
LEMMA IInvInit == Init => IInv
<1> SUFFICES ASSUME Init
             PROVE  IInv
  OBVIOUS
<1>1. Len(sessions) = 0 /\ job.pc = "idle"
  BY DEF Init, NoJob
<1>2. 1 .. Len(sessions) = {}
  BY <1>1
<1>3. FoundStillTrue /\ AtMostOneActive /\ ChargedPerStartedMinute
  BY <1>1, <1>2
     DEF FoundStillTrue, AtMostOneActive, Active, ChargedPerStartedMinute
<1>4. SuccessMeansStored
  <2>1. {i \in 1 .. Len(sessions) : sessions[i].end_time # Null} = {}
    BY <1>2
  <2>2. tally.started = 0 /\ tally.ended = 0
    BY DEF Init
  <2> QED
    BY <1>1, <2>1, <2>2, FS_EmptySet DEF SuccessMeansStored, Closed
<1> QED
  BY <1>3, <1>4, TypedInit DEF IInv

\* Every step preserves the invariant.
LEMMA IInvNext == IInv /\ [Next]_vars => IInv'
BY TypedNext, SessionsNext, ChargedNext, StoredNext DEF IInv

\* The inductive invariant holds in every reachable state: in particular what
\* start_parking and stop_parking found in the session table is still true when
\* their last statement uses it.
THEOREM Invariance == Spec => []IInv
BY IInvInit, IInvNext, PTL DEF Spec

\* The two tables and the request in progress are well formed in every
\* reachable state: what start_parking inserts has been checked before, and
\* the id of a city that PriceUpdater adds is a positive number.
THEOREM TypeCorrect == Spec => []TypeOK
<1> DEFINE Ids == withdrawn \subseteq Nat \ {0}
<1>1. IInv /\ Ids => TypeOK
  BY DEF IInv, Typed, Tables, JobOK, TypeOK, City, Session
<1>2. Init => Ids
  BY DEF Init
<1>3. IInv /\ Ids /\ [Next]_vars => Ids'
  <2> SUFFICES ASSUME IInv, Ids, [Next]_vars
               PROVE  Ids'
    OBVIOUS
  <2>1. CASE withdrawn' = withdrawn \/ withdrawn' = {}
    BY <2>1
  <2>2. ASSUME NEW name, DeleteCity(name)
        PROVE  Ids'
    BY <2>2 DEF DeleteCity, IInv, Typed, Tables, City
  <2>3. \/ withdrawn' = withdrawn \/ withdrawn' = {}
        \/ \E name \in CityNames : DeleteCity(name)
    BY Zenon DEF Next, Process, PriceUpdater, vars, Begin, FindCity,
                 CheckActive, ReadPrice, InsertSession, SelectActive,
                 UpdateSession, AddCity, UpdateCityPrice
  <2> QED
    BY <2>1, <2>2, <2>3
<1> HIDE DEF Ids
<1> QED
  BY <1>1, <1>2, <1>3, Invariance, PTL DEF Spec

\* A vehicle has at most one active session, although start_parking checks and
\* inserts in two transactions: whatever PriceUpdater does in between, nobody
\* but the response writer adds sessions.
THEOREM OneActive == Spec => []OneActiveSession
<1>1. ASSUME IInv, NEW v \in Vehicles
      PROVE  Cardinality(Active(v)) <= 1
  <2>1. CASE Active(v) = {}
    BY <2>1, FS_EmptySet
  <2>2. CASE Active(v) # {}
    <3>1. PICK i : Active(v) = {i}
      BY <1>1, <2>2 DEF IInv, AtMostOneActive
    <3> QED
      BY <3>1, FS_Singleton
  <2> QED
    BY <2>1, <2>2
<1>2. IInv => OneActiveSession
  BY <1>1 DEF OneActiveSession
<1> QED
  BY <1>2, Invariance, PTL

\* A finished session costs its stored price times the least number of minutes
\* that covers the parking time, for every duration.
THEOREM Charged == Spec => []ChargedPerStartedMinute
BY Invariance, PTL DEF IInv

\* As many sessions as successful starts and as many closed ones as successful
\* ends have been answered, whichever statements found the file locked.
THEOREM Stored == Spec => []SuccessMeansStored
BY Invariance, PTL DEF IInv

\* A session row is inserted, closed once and never changed again; its vehicle,
\* city, price and start stay what they were.
THEOREM OnlyClose == Spec => SessionsOnlyClose
<1> DEFINE A ==
      /\ Len(sessions') >= Len(sessions)
      /\ \A i \in 1 .. Len(sessions) :
           \/ sessions'[i] = sessions[i]
           \/ /\ sessions[i].end_time = Null /\ sessions'[i].end_time # Null
              /\ \A f \in {"vehicle", "city_id", "price", "start_time"} :
                   sessions'[i][f] = sessions[i][f]
<1>1. ASSUME IInv, [Next]_vars
      PROVE  A
  <2>0. Typed /\ FoundStillTrue /\ Len(sessions) \in Nat
    BY <1>1 DEF IInv, Typed, Tables
  <2>1. CASE sessions' = sessions
    BY <2>0, <2>1
  <2>2. CASE InsertSession /\ answer' = "SUCCESS"
    BY <2>0, <2>2, InsertSuccess
  <2>3. CASE UpdateSession /\ answer' = "SUCCESS"
    BY <2>0, <2>3, UpdateSuccess
  <2> QED
    BY <1>1, <2>1, <2>2, <2>3, Writers
<1>2. IInv /\ [Next]_vars => [A]_vars
  BY <1>1
<1> QED
  BY <1>2, Invariance, PTL DEF Spec, SessionsOnlyClose


-----------------------------------------------------------------------------
(* The refinement.  Tickets and bills change only with the session table;   *)
(* the proof takes the statements one by one.                              *)

\* What the mapping makes of a request in progress.
LEMMA RequestMap ==
  ASSUME JobOK
  PROVE  /\ job.pc = "idle" => Request = RequestOf(NoJob)
         /\ Request.vehicle = job.vehicle /\ Request.time = job.time
         /\ Request.point = job.point
         /\ job.pc # "idle" => Request # RequestOf(NoJob)
         /\ job.pc \in {"find", "check", "price", "insert"} =>
              Request.action = "START_PARKING"
         /\ job.pc \in {"select", "update"} => Request.action = "END_PARKING"
BY DEF Request, RequestOf, Asked, NoJob, JobOK

\* A statement that writes no session leaves the tickets and the bills alone.
LEMMA SameTickets ==
  ASSUME sessions' = sessions
  PROVE  Tickets' = Tickets /\ Bills' = Bills /\ Len(sessions)' = Len(sessions)
<1>1. \A v : Active(v)' = Active(v)
  BY DEF Active
<1>2. \A i : TicketOf(i)' = TicketOf(i) /\ BillOf(i)' = BillOf(i)
  BY DEF TicketOf, BillOf
<1>3. Closed' = Closed
  BY DEF Closed
<1> QED
  BY <1>1, <1>2, <1>3 DEF Tickets, Bills


\* A vehicle has a ticket if and only if it has an active session: that one.
LEMMA TicketMap ==
  ASSUME Tables, AtMostOneActive, NEW v \in Vehicles
  PROVE  /\ Parking!Parks(v) <=> Active(v) # {}
         /\ \A i \in Active(v) : Tickets[v] = TicketOf(i)
<1>1. \A i \in Active(v) : Latest(Active(v)) = i
  BY LatestActive DEF AtMostOneActive
<1>2. \A i \in Active(v) : Tickets[v] = TicketOf(i)
  BY <1>1 DEF Tickets
<1>3. Active(v) = {} => Tickets[v] = [ticket |-> 0, since |-> 0, price |-> 0]
  BY DEF Tickets
<1>4. \A i \in Active(v) : i # 0
  BY DEF Active, Tables
<1>5. \A i \in Active(v) :
        TicketOf(i) # [ticket |-> 0, since |-> 0, price |-> 0]
  BY <1>4 DEF TicketOf
<1> QED
  BY <1>2, <1>3, <1>5 DEF Parking!Parks, Parking!NotParked

\* A statement that fails or finds nothing ends the request and changes nothing
\* else.
LEMMA Refused ==
  ASSUME NEW status, Answer(status), sessions' = sessions, cities' = cities
  PROVE  /\ Parking!Respond(status)
         /\ UNCHANGED <<Tariff, Len(sessions), Tickets, Bills>>
<1>1. Request' = RequestOf(NoJob) /\ Quoted' = -1 /\ answer' = status
  BY DEF Answer, Request, Quoted, NoJob
<1>2. Tariff' = Tariff
  BY DEF Tariff
<1> QED
  BY <1>1, <1>2, SameTickets DEF Parking!Respond, Parking!NoQuote

\* The INSERT issues the next ticket.
LEMMA TicketsInsert ==
  ASSUME Typed, FoundStillTrue, AtMostOneActive, InsertSession,
         answer' = "SUCCESS"
  PROVE  /\ Len(sessions)' = Len(sessions) + 1
         /\ Tickets' = [Tickets EXCEPT ![job.vehicle] =
                          [ticket |-> Len(sessions) + 1, since |-> job.time,
                           price |-> job.price]]
         /\ Bills' = Bills
<1> DEFINE n == Len(sessions) + 1
           e == [vehicle |-> job.vehicle, city_id |-> job.city_id,
                 price |-> job.price, start_time |-> job.time,
                 end_time |-> Null, cost |-> Null]
<1>0. sessions \in Seq(Session) /\ Len(sessions) \in Nat
  BY DEF Typed, Tables
<1>1. /\ Len(sessions') = n /\ \A i \in 1 .. Len(sessions) : sessions'[i] = sessions[i]
      /\ sessions'[n] = e
  <2>1. sessions' = Append(sessions, e)
    BY DEF InsertSession, Answer
  <2>2. e \in Session
    BY DEF InsertSession, Typed, JobOK, Session, Null
  <2> HIDE DEF e
  <2> QED
    BY <1>0, <2>1, <2>2, AppendProperties
<1>2. Active(job.vehicle) = {} /\ job.vehicle \in Vehicles
  BY DEF InsertSession, FoundStillTrue, Typed, JobOK
<1>3. \A v : Active(v)' = IF v = job.vehicle THEN {n} ELSE Active(v)
  <2>1. [Next]_vars /\ ~UpdateSession
    BY DEF Next, Process, InsertSession, UpdateSession
  <2>2. sessions' # sessions
    BY <1>0, <1>1
  <2> QED
    BY <2>1, <2>2, ActiveChanges
<1> DEFINE t == [ticket |-> n, since |-> job.time, price |-> job.price]
<1>4. /\ \A i \in 1 .. Len(sessions) : /\ TicketOf(i)' = TicketOf(i)
                                      /\ BillOf(i)' = BillOf(i)
      /\ \A i : i = n => TicketOf(i)' = t
  BY <1>1 DEF TicketOf, BillOf
<1>5. Closed' = Closed
  BY <1>0, <1>1 DEF Closed
<1>6. Bills' = Bills
  BY <1>4, <1>5 DEF Bills, Closed
<1>7. Latest({n}) = n
  BY <1>0 DEF Latest
<1> HIDE DEF n, t
<1>8. \A v \in Vehicles :
        Tickets'[v] = IF v = job.vehicle THEN t ELSE Tickets[v]
  <2> SUFFICES ASSUME NEW v \in Vehicles
               PROVE  Tickets'[v] = IF v = job.vehicle THEN t ELSE Tickets[v]
    OBVIOUS
  <2>1. CASE v = job.vehicle
    <3>1. Active(v)' = {n} /\ Latest(Active(v)') = n
      BY <1>3, <1>7, <2>1
    <3>2. Tickets'[v] = TicketOf(Latest(Active(v)))'
      BY <3>1 DEF Tickets
    <3> QED
      BY <1>4, <2>1, <3>1, <3>2 DEF TicketOf
  <2>2. CASE v # job.vehicle
    <3>1. Active(v)' = Active(v)
      BY <1>3, <2>2
    <3>2. CASE Active(v) = {}
      BY <2>2, <3>1, <3>2 DEF Tickets
    <3>3. CASE Active(v) # {}
      <4>1. Latest(Active(v)) \in 1 .. Len(sessions)
        BY <3>3, LatestActive DEF Typed, Active
      <4>2. /\ Tickets'[v] = TicketOf(Latest(Active(v)))'
            /\ Tickets[v] = TicketOf(Latest(Active(v)))
        BY <3>1, <3>3 DEF Tickets
      <4> QED
        BY <1>1, <2>2, <3>1, <4>1, <4>2 DEF TicketOf
    <3> QED
      BY <3>2, <3>3
  <2> QED
    BY <2>1, <2>2
<1>9. Tickets' = [Tickets EXCEPT ![job.vehicle] = t]
  BY <1>8 DEF Tickets
<1> QED
  BY <1>1, <1>6, <1>9 DEF n, t

\* The UPDATE turns the vehicle's ticket into a bill.
LEMMA TicketsUpdate ==
  ASSUME Typed, FoundStillTrue, AtMostOneActive, UpdateSession,
         answer' = "SUCCESS"
  PROVE  LET s == sessions[job.session]
         IN /\ Len(sessions)' = Len(sessions)
            /\ Tickets' = [Tickets EXCEPT ![job.vehicle] =
                             [ticket |-> 0, since |-> 0, price |-> 0]]
            /\ Bills' = Bills \cup
                 {[ticket |-> job.session, vehicle |-> job.vehicle,
                   from |-> s.start_time, until |-> job.time,
                   cost |-> StartedMinutes(job.time - s.start_time) * s.price]}
<1> DEFINE k == job.session
           s == sessions[k]
           cost == StartedMinutes(job.time - s.start_time) * s.price
           bill == [ticket |-> k, vehicle |-> job.vehicle,
                    from |-> s.start_time, until |-> job.time, cost |-> cost]
<1>1. /\ k \in 1 .. Len(sessions) /\ Len(sessions') = Len(sessions)
      /\ \A j \in 1 .. Len(sessions) : j # k => sessions'[j] = sessions[j]
      /\ sessions[k].end_time = Null /\ sessions'[k].end_time # Null
      /\ sessions'[k].end_time = job.time /\ sessions'[k].cost = cost
      /\ sessions'[k].vehicle = s.vehicle
      /\ sessions'[k].start_time = s.start_time
  BY UpdateSuccess
<1>2. /\ k \in Active(job.vehicle) /\ s.vehicle = job.vehicle
      /\ job.vehicle \in Vehicles
  BY DEF UpdateSession, FoundStillTrue, Typed, JobOK, Active
<1>3. \A v : Active(v)' = Active(v) \ {k}
  <2>1. [Next]_vars /\ ~InsertSession
    BY DEF Next, Process, InsertSession, UpdateSession
  <2>2. sessions' # sessions
    BY <1>1
  <2> QED
    BY <2>1, <2>2, ActiveChanges
<1>4. \A v \in Vehicles : Active(v)' = IF v = job.vehicle THEN {} ELSE Active(v)
  <2>1. \A v \in Vehicles : v # job.vehicle => k \notin Active(v)
    BY <1>2 DEF Active
  <2> QED
    BY <1>2, <1>3, <2>1 DEF AtMostOneActive
<1> HIDE DEF cost
<1>5. /\ \A i \in 1 .. Len(sessions) : i # k => /\ TicketOf(i)' = TicketOf(i)
                                                /\ BillOf(i)' = BillOf(i)
      /\ \A i : i = k => BillOf(i)' = bill
  BY <1>1, <1>2 DEF TicketOf, BillOf
<1>6. k \notin Closed /\ Closed' = Closed \cup {k}
  BY <1>1 DEF Closed
<1> HIDE DEF k, bill
<1>7. Bills' = Bills \cup {bill}
  <2>1. \A i \in Closed : i \in 1 .. Len(sessions) /\ i # k
    BY <1>6 DEF Closed
  <2> QED
    BY <1>5, <1>6, <2>1 DEF Bills
<1>8. \A v \in Vehicles :
        Tickets'[v] = IF v = job.vehicle
                      THEN [ticket |-> 0, since |-> 0, price |-> 0]
                      ELSE Tickets[v]
  <2> SUFFICES ASSUME NEW v \in Vehicles
               PROVE  Tickets'[v] = IF v = job.vehicle
                                    THEN [ticket |-> 0, since |-> 0, price |-> 0]
                                    ELSE Tickets[v]
    OBVIOUS
  <2>1. CASE v = job.vehicle
    BY <1>4, <2>1 DEF Tickets
  <2>2. CASE v # job.vehicle /\ Active(v) = {}
    BY <1>4, <2>2 DEF Tickets
  <2>3. CASE v # job.vehicle /\ Active(v) # {}
    <3>1. Active(v)' = Active(v)
      BY <1>4, <2>3
    <3>2. Latest(Active(v)) \in Active(v)
      BY <2>3, LatestActive DEF Typed
    <3>3. Latest(Active(v)) \in 1 .. Len(sessions) /\ Latest(Active(v)) # k
      BY <1>2, <2>3, <3>2 DEF Active, k
    <3>4. /\ Tickets'[v] = TicketOf(Latest(Active(v)))'
          /\ Tickets[v] = TicketOf(Latest(Active(v)))
      BY <2>3, <3>1 DEF Tickets
    <3> QED
      BY <1>1, <2>3, <3>1, <3>3, <3>4 DEF TicketOf
  <2> QED
    BY <2>1, <2>2, <2>3
<1>9. Tickets' = [Tickets EXCEPT ![job.vehicle] =
                    [ticket |-> 0, since |-> 0, price |-> 0]]
  BY <1>8 DEF Tickets
<1> QED
  BY <1>1, <1>7, <1>9 DEF k, bill, cost

\* A statement in the middle of a handler is no step of the service.
LEMMA Silent ==
  ASSUME JobOK, sessions' = sessions, cities' = cities, answer' = answer,
         job.pc # "idle", job'.pc # "idle", Asked(job'.pc) = Asked(job.pc),
         job'.vehicle = job.vehicle, job'.point = job.point,
         job'.time = job.time, job.pc # "insert", job'.pc # "insert"
  PROVE  UNCHANGED Parking!serviceVars
<1>1. Request' = Request
  BY DEF Request, RequestOf
<1>2. Quoted' = Quoted
  BY DEF Quoted
<1>3. Tariff' = Tariff
  BY DEF Tariff
<1> QED
  BY <1>1, <1>2, <1>3, SameTickets DEF Parking!serviceVars


\* The handler of START_PARKING, statement by statement.
LEMMA StartSteps ==
  ASSUME IInv, FindCity \/ CheckActive \/ ReadPrice \/ InsertSession
  PROVE  Parking!Next \/ UNCHANGED Parking!serviceVars
<1>0. /\ Typed /\ JobOK /\ Tables /\ FoundStillTrue /\ AtMostOneActive
      /\ job.pc \in {"find", "check", "price", "insert"}
  BY DEF IInv, Typed, FindCity, CheckActive, ReadPrice, InsertSession
<1>1. Parking!Starting /\ Request.vehicle = job.vehicle
  BY <1>0, RequestMap DEF Parking!Starting
<1>2. job.vehicle \in Vehicles
  BY <1>0 DEF JobOK
<1>3. job.pc # "insert" => Quoted = Parking!NoQuote
  BY DEF Quoted, Parking!NoQuote
<1>4. ASSUME Answer("DATABASE_ERROR"), sessions' = sessions, cities' = cities,
             job.pc # "insert" \/ Busy
      PROVE  Parking!Next
  BY <1>1, <1>3, <1>4, Refused DEF Parking!Next, Parking!RefuseStart
<1>5. CASE FindCity
  <2>1. sessions' = sessions /\ cities' = cities /\ job.pc = "find"
    BY <1>5 DEF FindCity
  <2>2. CASE answer' = answer /\ job'.pc = "check"
    <3>1. PICK i : job' = [job EXCEPT !.pc = "check", !.city_id = i]
      BY <1>5, <2>2, Answered DEF FindCity
    <3>2. /\ job'.vehicle = job.vehicle /\ job'.point = job.point
          /\ job'.time = job.time
      BY <1>0, <3>1 DEF JobOK
    <3> QED
      BY <1>0, <2>1, <2>2, <3>2, Silent DEF Asked
  <2>3. CASE /\ \/ {r \in cities : job.point \in r.area} = {} 
                \/ Busy
             /\ Answer("INVALID_REQUEST")
    <3>1. Busy \/ \A zone \in Tariff : Request.point \notin zone.area
      BY <1>0, <2>3, RequestMap DEF Tariff
    <3> QED
      BY <1>1, <1>3, <2>1, <2>3, <3>1, Refused
         DEF Parking!Next, Parking!RefuseStart
  <2> QED
    BY <1>0, <1>5, <2>2, <2>3 DEF FindCity, JobOK
<1>6. CASE CheckActive
  <2>1. sessions' = sessions /\ cities' = cities /\ job.pc = "check"
    BY <1>6 DEF CheckActive
  <2>2. CASE answer' = answer /\ job' = [job EXCEPT !.pc = "price"]
    <3>1. /\ job'.vehicle = job.vehicle /\ job'.point = job.point
          /\ job'.time = job.time /\ job'.pc = "price"
      BY <1>0, <2>2 DEF JobOK
    <3> QED
      BY <1>0, <2>1, <2>2, <3>1, Silent DEF Asked
  <2> QED
    BY <1>4, <1>6, <2>1, <2>2 DEF CheckActive
<1>7. CASE ReadPrice
  <2>1. sessions' = sessions /\ cities' = cities /\ job.pc = "price"
    BY <1>7 DEF ReadPrice
  <2>2. ASSUME NEW r \in cities, answer' = answer,
               job' = [job EXCEPT !.pc = "insert", !.price = r.price]
        PROVE  Parking!Quote
    <3>1. /\ job'.vehicle = job.vehicle /\ job'.point = job.point
          /\ job'.time = job.time /\ job'.pc = "insert"
          /\ job'.price = r.price
      BY <1>0, <2>2 DEF JobOK
    <3>2. Request' = Request
      BY <2>1, <3>1 DEF Request, RequestOf, Asked
    <3>3. Quoted' = r.price
      BY <3>1 DEF Quoted
    <3>4. Tariff' = Tariff /\ \E zone \in Tariff : Quoted' = zone.price
      <4> DEFINE zone == [area |-> r.area, price |-> r.price]
      <4>1. zone \in Tariff /\ zone.price = r.price
        BY DEF Tariff
      <4>2. Tariff' = Tariff
        BY <2>1 DEF Tariff
      <4> QED
        BY <3>3, <4>1, <4>2
    <3>5. ~Parking!Parks(Request.vehicle)
      BY <1>0, <1>1, <1>2, <2>1, TicketMap DEF FoundStillTrue
    <3> QED
      BY <1>1, <1>3, <2>1, <2>2, <3>2, <3>4, <3>5, SameTickets
         DEF Parking!Quote
  <2> QED
    BY <1>4, <1>7, <2>1, <2>2 DEF ReadPrice, Parking!Next
<1>8. CASE InsertSession
  <2>1. CASE answer' = "SUCCESS"
    <3>1. job.pc = "insert" /\ Answer("SUCCESS") /\ cities' = cities
      BY <1>8, <2>1 DEF InsertSession, Answer
    <3>2. /\ Quoted = job.price /\ job.price \in Nat /\ job.time > 0
          /\ Request.time = job.time
      BY <1>0, <3>1, RequestMap DEF Quoted, JobOK
    <3>3. Quoted # Parking!NoQuote
      BY <3>2 DEF Parking!NoQuote
    <3>4. ~Parking!Parks(Request.vehicle)
      BY <1>0, <1>1, <1>2, <3>1, TicketMap DEF FoundStillTrue
    <3>5. Parking!Respond("SUCCESS") /\ Tariff' = Tariff
      BY <3>1 DEF Answer, Request, Quoted, NoJob, Parking!Respond,
                  Parking!NoQuote, Tariff
    <3>6. Parking!Start
      BY <1>0, <1>1, <1>8, <2>1, <3>2, <3>3, <3>4, <3>5, TicketsInsert
         DEF Parking!Start
    <3> QED
      BY <3>6 DEF Parking!Next
  <2> QED
    BY <1>4, <1>8, <2>1 DEF InsertSession, Answer
<1> QED
  BY <1>5, <1>6, <1>7, <1>8

\* The handler of END_PARKING, statement by statement.
LEMMA EndSteps ==
  ASSUME IInv, SelectActive \/ UpdateSession
  PROVE  Parking!Next \/ UNCHANGED Parking!serviceVars
<1>0. /\ Typed /\ JobOK /\ Tables /\ FoundStillTrue /\ AtMostOneActive
      /\ job.pc \in {"select", "update"} /\ cities' = cities
  BY DEF IInv, Typed, SelectActive, UpdateSession
<1>1. /\ Parking!Ending /\ Request.vehicle = job.vehicle
      /\ Request.time = job.time
  BY <1>0, RequestMap DEF Parking!Ending
<1>2. job.vehicle \in Vehicles /\ job.time \in Nat
  BY <1>0 DEF JobOK
<1>3. ASSUME Answer("VEHICLE_NOT_FOUND"), sessions' = sessions,
             \/ Busy \/ ~Parking!Parks(Request.vehicle) \/ Request.time <= 0
             \/ Request.time < Tickets[Request.vehicle].since
      PROVE  Parking!Next
  BY <1>0, <1>1, <1>3, Refused DEF Parking!Next, Parking!RefuseEnd
<1>4. CASE SelectActive
  <2> DEFINE ids == Active(job.vehicle)
             s == sessions[Latest(ids)]
  <2>1. sessions' = sessions /\ job.pc = "select"
    BY <1>4 DEF SelectActive
  <2>2. CASE answer' = answer /\ job'.pc = "update"
    <3>1. PICK i, p : job' = [job EXCEPT !.pc = "update", !.session = i,
                                         !.price = p]
      BY <1>4, <2>2, Answered DEF SelectActive
    <3>2. /\ job'.vehicle = job.vehicle /\ job'.point = job.point
          /\ job'.time = job.time
      BY <1>0, <3>1 DEF JobOK
    <3> QED
      BY <1>0, <2>1, <2>2, <3>2, Silent DEF Asked
  <2>3. CASE /\ \/ job.time <= 0 \/ ids = {} \/ Busy
                \/ ids # {} /\ job.time < s.start_time
             /\ Answer("VEHICLE_NOT_FOUND")
    <3>1. CASE job.time <= 0 \/ Busy
      BY <1>1, <1>3, <2>1, <2>3, <3>1
    <3>2. CASE ids = {}
      BY <1>0, <1>1, <1>2, <1>3, <2>1, <2>3, <3>2, TicketMap
    <3>3. CASE ids # {} /\ job.time < s.start_time
      <4>1. Latest(ids) \in ids
        BY <1>0, <3>3, LatestActive
      <4>2. Tickets[job.vehicle] = TicketOf(Latest(ids))
        BY <1>0, <1>2, <4>1, TicketMap
      <4>3. Tickets[job.vehicle].since = s.start_time
        BY <4>2 DEF TicketOf
      <4> QED
        BY <1>1, <1>3, <2>1, <2>3, <3>3, <4>3
    <3> QED
      BY <2>3, <3>1, <3>2, <3>3
  <2> QED
    BY <1>0, <1>4, <2>2, <2>3 DEF SelectActive, JobOK
<1>5. CASE UpdateSession
  <2>1. CASE answer' = "SUCCESS"
    <3> DEFINE k == job.session
               s == sessions[k]
               d == job.time - s.start_time
               m == StartedMinutes(d)
    <3>1. job.pc = "update" /\ Answer("SUCCESS")
      BY <1>5, <2>1 DEF UpdateSession, Answer
    <3>2. k \in Active(job.vehicle) /\ d \in Nat
      BY <1>0, <1>5, <2>1, <3>1, UpdateSuccess DEF FoundStillTrue
    <3>3. /\ Parking!Parks(Request.vehicle)
          /\ Tickets[Request.vehicle] = TicketOf(k)
      BY <1>0, <1>1, <1>2, <3>2, TicketMap
    <3>4. Parking!Respond("SUCCESS") /\ Tariff' = Tariff
      BY <1>0, <3>1 DEF Answer, Request, Quoted, NoJob, Parking!Respond,
                  Parking!NoQuote, Tariff
    <3>5. m \in 0 .. d /\ 60 * m >= d /\ 60 * (m - 1) < d
      BY <3>2, Minutes
    <3>6. /\ Len(sessions)' = Len(sessions)
          /\ Tickets' = [Tickets EXCEPT ![job.vehicle] = Parking!NotParked]
          /\ Bills' = Bills \cup {[ticket |-> k, vehicle |-> job.vehicle,
                                   from |-> s.start_time, until |-> job.time,
                                   cost |-> m * s.price]}
      BY <1>0, <1>5, <2>1, TicketsUpdate DEF Parking!NotParked
    <3>7. job.time > 0
      BY <1>0, <3>1 DEF JobOK
    <3>8. /\ Tickets[Request.vehicle].ticket = k
          /\ Tickets[Request.vehicle].since = s.start_time
          /\ Tickets[Request.vehicle].price = s.price
      BY <3>3 DEF TicketOf
    <3> HIDE DEF m, k
    <3>9. Parking!End
      BY <1>1, <3>3, <3>4, <3>5, <3>6, <3>7, <3>8 DEF Parking!End
    <3> QED
      BY <3>9 DEF Parking!Next
  <2> QED
    BY <1>3, <1>5, <2>1 DEF UpdateSession, Answer
<1> QED
  BY <1>4, <1>5

\* PriceUpdater's statements, and requests that arrive.
LEMMA OtherSteps ==
  ASSUME IInv, IInv', (\E req \in Requests : Begin(req)) \/ PriceUpdater
  PROVE  Parking!Next
<1>1. ASSUME NEW req \in Requests, Begin(req)
      PROVE  Parking!Ask \/ Parking!Reject
  <2>1. /\ JobOK /\ job = NoJob /\ sessions' = sessions /\ cities' = cities
        /\ Request = RequestOf(NoJob) /\ Quoted = -1
    <3>1. /\ JobOK /\ job.pc = "idle" /\ sessions' = sessions
          /\ cities' = cities
      BY <1>1 DEF IInv, Typed, Begin
    <3>2. job = NoJob
      BY <3>1 DEF JobOK
    <3> QED
      BY <3>1, <3>2 DEF Request, Quoted, NoJob
  <2>2. Tariff' = Tariff
    BY <2>1 DEF Tariff
  <2>3. CASE req.action = "ACKNOWLEDGE"
    <3>1. job' = job /\ answer' = "INVALID_REQUEST"
      BY <1>1, <2>1, <2>3 DEF Begin, Answer
    <3>2. Request' = Request /\ Quoted' = Quoted
      BY <3>1 DEF Request, Quoted
    <3> QED
      BY <2>1, <2>2, <3>1, <3>2, SameTickets DEF Parking!Reject
  <2>4. CASE req.action # "ACKNOWLEDGE"
    <3>1. PICK pc \in {"find", "select"} :
            /\ job' = [NoJob EXCEPT !.pc = pc, !.vehicle = req.vehicle,
                                    !.point = req.point, !.time = req.time]
            /\ answer' = "none"
      BY <1>1, <2>4, Zenon DEF Begin
    <3>2. /\ job'.pc = pc /\ job'.vehicle = req.vehicle
          /\ job'.point = req.point /\ job'.time = req.time
      BY <3>1 DEF NoJob
    <3>3. Request' \in [action : {"START_PARKING", "END_PARKING"},
                        vehicle : Vehicles, point : Points, time : Times]
      BY <3>2 DEF Request, RequestOf, Asked, Requests
    <3>4. Quoted' = Quoted
      BY <2>1, <3>2 DEF Quoted
    <3> QED
      BY <2>1, <2>2, <3>1, <3>3, <3>4, SameTickets DEF Parking!Ask
  <2> QED
    BY <2>3, <2>4
<1>2. CASE PriceUpdater
  <2>1. job' = job /\ answer' = answer /\ sessions' = sessions
    BY <1>2 DEF PriceUpdater, AddCity, UpdateCityPrice, DeleteCity
  <2>2. Request' = Request /\ Quoted' = Quoted
    BY <2>1 DEF Request, Quoted
  <2>3. Tariff' \subseteq [area : Areas, price : Prices]
    BY DEF IInv, Typed, Tables, City, Tariff
  <2>4. Parking!ChangeZones
    BY <2>1, <2>2, <2>3, SameTickets DEF Parking!ChangeZones
  <2> QED
    BY <2>4 DEF Parking!Next
<1> QED
  BY <1>1, <1>2 DEF Parking!Next

\* The empty session table is a parking service without tickets.
LEMMA ParkingInit == Init => Parking!Init
<1> SUFFICES ASSUME Init
             PROVE  Parking!Init
  OBVIOUS
<1>1. sessions = <<>> /\ Len(sessions) = 0 /\ job = NoJob /\ answer = "none"
  BY DEF Init
<1>2. Request = RequestOf(NoJob) /\ Quoted = -1
  BY <1>1 DEF Request, Quoted, NoJob
<1>3. Closed = {} /\ \A v : Active(v) = {}
  BY <1>1 DEF Closed, Active
<1>4. /\ Bills = {}
      /\ Tickets = [v \in Vehicles |-> [ticket |-> 0, since |-> 0, price |-> 0]]
  BY <1>3 DEF Bills, Tickets
<1>5. Tariff \subseteq [area : Areas, price : Prices]
  BY TypedInit DEF Typed, Tables, City, Tariff
<1> QED
  BY <1>1, <1>2, <1>4, <1>5
     DEF Parking!Init, Parking!NoQuote, Parking!NotParked

\* The handlers behind process_database_request, with their separate
\* transactions, failing statements and price changes in between, implement the
\* parking service: for every set of vehicles, cities and prices and any number
\* of requests, one ticket per vehicle, one bill per ticket at the price of the
\* ticket, a SUCCESS for exactly these, and no refusal without a reason.
THEOREM Implements == Spec => ImplementsParking
<1>1. IInv /\ IInv' /\ [Next]_vars => [Parking!Next]_(Parking!serviceVars)
  <2> SUFFICES ASSUME IInv, IInv', [Next]_vars
               PROVE  Parking!Next \/ UNCHANGED Parking!serviceVars
    OBVIOUS
  <2>1. CASE UNCHANGED vars
    <3>1. Request' = Request /\ Quoted' = Quoted /\ Tariff' = Tariff
      BY <2>1 DEF vars, Request, Quoted, Tariff
    <3> QED
      BY <2>1, <3>1, SameTickets DEF vars, Parking!serviceVars
  <2> QED
    BY <2>1, StartSteps, EndSteps, OtherSteps DEF Next, Process
<1> QED
  BY <1>1, ParkingInit, Invariance, PTL DEF Spec, ImplementsParking, Parking!Spec


-----------------------------------------------------------------------------
(* The price of the place.                                                 *)

\* id is a PRIMARY KEY.
UniqueIds == \A r, s \in cities : r.id = s.id => r = s

\* The row of the city that find_city found, and no other row with its id,
\* covers the place where the vehicle is, until the city is deleted.
StillCovers ==
  job.pc \in {"check", "price"} =>
    \/ job.city_id \in withdrawn
    \/ /\ \E r \in cities : r.id = job.city_id
       /\ \A r \in cities : r.id = job.city_id => job.point \in r.area

\* Two cities never get the same id.
LEMMA UniqueIdsNext ==
  ASSUME Tables, UniqueIds, [Next]_vars
  PROVE  UniqueIds'
<1>1. CASE cities' = cities
  BY <1>1 DEF UniqueIds
<1>2. ASSUME NEW name, NEW area, NEW price, AddCity(name, area, price)
      PROVE  UniqueIds'
  <2> DEFINE new == [id |-> NextId, city |-> name, area |-> area,
                     price |-> price]
  <2>1. cities' = cities \cup {new} /\ new.id = NextId
    BY <1>2 DEF AddCity
  <2>2. \A r \in cities : r.id # NextId
    BY NextIdType
  <2> HIDE DEF new
  <2> QED
    BY <2>1, <2>2 DEF UniqueIds
<1>3. ASSUME NEW name, NEW price, UpdateCityPrice(name, price)
      PROVE  UniqueIds'
  <2>1. PICK r \in cities : cities' = (cities \ {r}) \cup
                                      {[r EXCEPT !.price = price]}
    BY <1>3 DEF UpdateCityPrice
  <2> DEFINE new == [r EXCEPT !.price = price]
  <2>2. new.id = r.id
    BY DEF Tables, City
  <2> HIDE DEF new
  <2>3. cities' = (cities \ {r}) \cup {new}
    BY <2>1 DEF new
  <2> QED
    BY <2>2, <2>3 DEF UniqueIds
<1>4. ASSUME NEW name, DeleteCity(name)
      PROVE  UniqueIds'
  BY <1>4 DEF DeleteCity, UniqueIds
<1>5. \/ cities' = cities \/ PriceUpdater
  BY Zenon DEF Next, Process, vars, Begin, FindCity, CheckActive, ReadPrice,
               InsertSession, SelectActive, UpdateSession
<1> QED
  BY <1>1, <1>2, <1>3, <1>4, <1>5 DEF PriceUpdater

\* Until it is deleted the found city keeps its place: prices change, and new
\* cities get new ids.
LEMMA StillCoversNext ==
  ASSUME Typed, UniqueIds, StillCovers, [Next]_vars
  PROVE  StillCovers'
<1>0. Tables /\ JobOK
  BY DEF Typed
<1>1. CASE FindCity
  <2>1. CASE job'.pc = "check"
    <3>1. PICK r \in cities : /\ job.point \in r.area
                              /\ job' = [job EXCEPT !.pc = "check",
                                                    !.city_id = r.id]
      BY <1>1, <2>1, Answered DEF FindCity
    <3>2. job'.point = job.point /\ job'.city_id = r.id /\ cities' = cities
      BY <1>0, <1>1, <3>1 DEF JobOK, FindCity
    <3> QED
      BY <3>1, <3>2 DEF StillCovers, UniqueIds
  <2>2. CASE job'.pc = "idle"
    BY <2>2 DEF StillCovers
  <2> QED
    BY <1>0, <1>1, <2>1, <2>2, Answered DEF FindCity, JobOK
<1>2. CASE CheckActive
  <2>1. CASE job' = [job EXCEPT !.pc = "price"]
    <3>1. /\ job'.point = job.point /\ job'.city_id = job.city_id
          /\ cities' = cities /\ withdrawn' = withdrawn /\ job.pc = "check"
      BY <1>0, <1>2, <2>1 DEF JobOK, CheckActive
    <3> QED
      BY <3>1 DEF StillCovers
  <2>2. CASE job'.pc = "idle"
    BY <2>2 DEF StillCovers
  <2> QED
    BY <1>2, <2>1, <2>2, Answered DEF CheckActive
<1>3. ASSUME NEW name, NEW area, NEW price, AddCity(name, area, price)
      PROVE  StillCovers'
  <2> DEFINE new == [id |-> NextId, city |-> name, area |-> area,
                     price |-> price]
  <2>1. /\ cities' = cities \cup {new} /\ new.id = NextId
        /\ job' = job /\ withdrawn' = withdrawn
    BY <1>3 DEF AddCity
  <2>2. \A r \in cities : r.id # NextId
    BY <1>0, NextIdType
  <2> HIDE DEF new
  <2> QED
    BY <2>1, <2>2 DEF StillCovers
<1>4. ASSUME NEW name, NEW price, UpdateCityPrice(name, price)
      PROVE  StillCovers'
  <2>1. PICK r \in cities : cities' = (cities \ {r}) \cup
                                      {[r EXCEPT !.price = price]}
    BY <1>4 DEF UpdateCityPrice
  <2> DEFINE new == [r EXCEPT !.price = price]
  <2>2. /\ new.id = r.id /\ new.area = r.area
        /\ job' = job /\ withdrawn' = withdrawn
    BY <1>0, <1>4 DEF Tables, City, UpdateCityPrice
  <2> HIDE DEF new
  <2>3. cities' = (cities \ {r}) \cup {new}
    BY <2>1 DEF new
  <2> QED
    BY <2>2, <2>3 DEF StillCovers
<1>5. CASE \/ cities' = cities /\ job' = job /\ withdrawn' = withdrawn
           \/ job'.pc \notin {"check", "price"}
  BY <1>5 DEF StillCovers
<1>6. ASSUME NEW name, DeleteCity(name)
      PROVE  StillCovers'
  <2>1. PICK r \in cities :
          /\ cities' = cities \ {r}
          /\ withdrawn' = IF job.pc = "idle" THEN {} ELSE withdrawn \cup {r.id}
    BY <1>6 DEF DeleteCity
  <2>2. job' = job
    BY <1>6 DEF DeleteCity
  <2>3. CASE job.city_id = r.id
    BY <2>1, <2>2, <2>3 DEF StillCovers
  <2>4. CASE job.city_id # r.id
    BY <2>1, <2>2, <2>4 DEF StillCovers
  <2> QED
    BY <2>3, <2>4
<1>7. CASE \E req \in Requests : Begin(req)
  <2>1. cities' = cities
    BY <1>7 DEF Begin
  <2>2. job'.pc \notin {"check", "price"}
    BY <1>7, Answered DEF Begin, NoJob
  <2> QED
    BY <1>5, <2>1, <2>2
<1>11. CASE InsertSession \/ UpdateSession
  <2>1. cities' = cities /\ job'.pc = "idle"
    BY <1>11, Answered DEF InsertSession, UpdateSession
  <2> QED
    BY <1>5, <2>1
<1>8. CASE ReadPrice
  <2>1. cities' = cities /\ job'.pc \notin {"check", "price"}
    BY <1>0, <1>8, Answered DEF ReadPrice, JobOK
  <2> QED
    BY <1>5, <2>1
<1>9. CASE SelectActive
  <2>1. cities' = cities /\ job'.pc \notin {"check", "price"}
    BY <1>0, <1>9, Answered DEF SelectActive, JobOK
  <2> QED
    BY <1>5, <2>1
<1>10. CASE UNCHANGED vars
  BY <1>5, <1>10 DEF vars
<1> QED
  BY <1>1, <1>2, <1>3, <1>4, <1>6, <1>7, <1>8, <1>9, <1>10, <1>11
     DEF Next, Process, PriceUpdater

\* Every session starts at a price that holds at that moment where the vehicle
\* is, however prices change and cities are added between find_city and the
\* price statement, unless the very city that was found has been deleted in
\* between.  For every table of cities and any number of changes.
THEOREM Priced == Spec => PricedByLocation
<1> DEFINE A == job.pc = "price" /\ job'.pc = "insert"
                  => \/ \E r \in cities :
                          job.point \in r.area /\ r.price = job'.price
                     \/ job.city_id \in withdrawn
           Inv == UniqueIds /\ StillCovers
<1>1. Init => Inv
  BY SeedAssumption DEF Init, UniqueIds, StillCovers, NoJob
<1>2. IInv /\ Inv /\ [Next]_vars => Inv'
  BY UniqueIdsNext, StillCoversNext DEF IInv, Typed
<1>3. IInv /\ Inv /\ [Next]_vars => [A]_vars
  <2> SUFFICES ASSUME IInv, Inv, [Next]_vars, job.pc = "price",
                      job'.pc = "insert", job.city_id \notin withdrawn
               PROVE  \E r \in cities : /\ job.point \in r.area
                                        /\ r.price = job'.price
    OBVIOUS
  <2>1. ReadPrice
    BY Answered DEF Next, Process, PriceUpdater, AddCity, UpdateCityPrice,
                    DeleteCity, vars, Begin, FindCity, CheckActive,
                    InsertSession, SelectActive, UpdateSession
  <2>2. PICK r \in cities : /\ r.id = job.city_id
                            /\ job' = [job EXCEPT !.pc = "insert",
                                                  !.price = r.price]
    BY <2>1, Answered DEF ReadPrice
  <2>3. job'.price = r.price
    BY <2>2 DEF IInv, Typed, JobOK
  <2> QED
    BY <2>2, <2>3 DEF StillCovers
<1> HIDE DEF Inv
<1>4. Spec => []Inv
  BY <1>1, <1>2, Invariance, PTL DEF Spec
<1> QED
  BY <1>3, <1>4, Invariance, PTL DEF Spec, PricedByLocation

=============================================================================
