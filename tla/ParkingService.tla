--------------------------- MODULE ParkingService ---------------------------
(***************************************************************************)
(* What the parking data promise, seen from the response writer thread:    *)
(* each vehicle has at most one ticket, a ticket keeps the price it was    *)
(* issued at, it is turned into a bill once, and a request is refused only *)
(* for a reason.  No tables, row numbers or SQL statements: a request      *)
(* takes effect in one step, or not at all.                                *)
(***************************************************************************)
EXTENDS Integers

CONSTANTS Vehicles, Points, Times,
          Zones,         \* records of an area and a price per minute
          NoRequest,     \* the request while there is none
          Failing        \* whether the storage may refuse a statement

VARIABLES request,    \* the request in progress
          quote,      \* the price it was given, or NoQuote
          answer,     \* status of the last response
          zones,      \* what parking costs where, now
          issued,     \* tickets issued so far
          parked,     \* for each vehicle its ticket, or NotParked
          bills       \* the tickets that have been closed, with their cost

serviceVars == <<request, quote, answer, zones, issued, parked, bills>>

NoQuote == -1
NotParked == [ticket |-> 0, since |-> 0, price |-> 0]
Parks(v) == parked[v] # NotParked

Starting == request # NoRequest /\ request.action = "START_PARKING"
Ending == request # NoRequest /\ request.action = "END_PARKING"

Init ==
  /\ request = NoRequest /\ quote = NoQuote /\ answer = "none"
  /\ zones \subseteq Zones
  /\ issued = 0 /\ bills = {}
  /\ parked = [v \in Vehicles |-> NotParked]

-----------------------------------------------------------------------------
Ask ==
  /\ request = NoRequest
  /\ request' \in [action : {"START_PARKING", "END_PARKING"},
                   vehicle : Vehicles, point : Points, time : Times]
  /\ answer' = "none"
  /\ UNCHANGED <<quote, zones, issued, parked, bills>>

\* A request for anything else is answered at once.
Reject ==
  /\ request = NoRequest
  /\ answer' = "INVALID_REQUEST"
  /\ UNCHANGED <<request, quote, zones, issued, parked, bills>>

Respond(status) == request' = NoRequest /\ quote' = NoQuote /\ answer' = status

\* A vehicle that is not parked is told a price that is in force now.
Quote ==
  /\ Starting /\ quote = NoQuote /\ ~Parks(request.vehicle)
  /\ \E zone \in zones : quote' = zone.price
  /\ UNCHANGED <<request, answer, zones, issued, parked, bills>>

\* The ticket of a vehicle that is not parked, at the price it was told.
Start ==
  /\ Starting /\ quote # NoQuote
  /\ ~Parks(request.vehicle) /\ request.time > 0
  /\ issued' = issued + 1
  /\ parked' = [parked EXCEPT ![request.vehicle] =
                  [ticket |-> issued', since |-> request.time, price |-> quote]]
  /\ Respond("SUCCESS")
  /\ UNCHANGED <<zones, bills>>

\* The bill: every started minute at the price of the ticket.
End ==
  /\ Ending /\ Parks(request.vehicle) /\ request.time > 0
  /\ LET t == parked[request.vehicle]
         seconds == request.time - t.since
     IN \E minutes \in 0 .. seconds :
          /\ 60 * minutes >= seconds /\ 60 * (minutes - 1) < seconds
          /\ bills' = bills \cup {[ticket |-> t.ticket,
                                   vehicle |-> request.vehicle,
                                   from |-> t.since, until |-> request.time,
                                   cost |-> minutes * t.price]}
  /\ parked' = [parked EXCEPT ![request.vehicle] = NotParked]
  /\ Respond("SUCCESS")
  /\ UNCHANGED <<zones, issued>>

\* A vehicle that was told a price is refused only if the storage fails; one
\* that was not may have come from outside the zones, or be parked already.
RefuseStart ==
  /\ Starting
  /\ \/ /\ quote = NoQuote
        /\ Failing \/ \A zone \in zones : request.point \notin zone.area
        /\ Respond("INVALID_REQUEST")
     \/ /\ quote = NoQuote \/ Failing
        /\ Respond("DATABASE_ERROR")
  /\ UNCHANGED <<zones, issued, parked, bills>>

\* A parked vehicle is told VEHICLE_NOT_FOUND only if the storage fails or its
\* clock says that it leaves before it came.
RefuseEnd ==
  /\ Ending
  /\ \/ Failing \/ ~Parks(request.vehicle) \/ request.time <= 0
     \/ request.time < parked[request.vehicle].since
  /\ Respond("VEHICLE_NOT_FOUND")
  /\ UNCHANGED <<zones, issued, parked, bills>>

\* PriceUpdater decides what parking costs from now on, for new tickets only.
ChangeZones ==
  /\ zones' \subseteq Zones
  /\ UNCHANGED <<request, quote, answer, issued, parked, bills>>

Next ==
  \/ Ask \/ Reject \/ Quote \/ Start \/ End
  \/ RefuseStart \/ RefuseEnd \/ ChangeZones

Spec == Init /\ [][Next]_serviceVars

=============================================================================
