------------------------------ MODULE Endpoints ------------------------------
(***************************************************************************)
(* The endpoints of runHTTP other than the check-ins of CheckinPipeline:   *)
(* register (Tokens), upload (UploadEndpoint), events (EventListing) and   *)
(* healthz (Services); and those of newGoAttend's backend, students        *)
(* (StudentRegistry).  None decides on another's state, so a behaviour is  *)
(* about one of them and the rest of the state stays as it is.  A request  *)
(* with its program counter, the number of faults, and whether Cloudinary  *)
(* is configured belong to the endpoint that is chosen.                    *)
(***************************************************************************)
EXTENDS UploadEndpoint

CONSTANTS
  Workers,
  Devices, Settings, PerSecond, AccessTTL, RefreshTTL, MaxNow, MaxIssued, MaxLapses,
  Events, DeviceOf, UserOf, WhenOf, Any, Absent, Limits, DefaultLimit,
  Emails, Numbers, Ids, Faces, NoFace, Threshold, MaxUploads, MaxLogins, MaxErrors

VARIABLES
  endpoint,                                         \* the one that is looked at
  now, settings, tokens, loc, issued, started,      \* register
  stored, request, offset, seen, begun, done,       \* events
  up, api, worker, health,                          \* healthz
  students, attendance, pictures, files, calls, form, logins  \* students

Register == INSTANCE Tokens WITH MaxTime <- MaxNow, MaxFaults <- MaxLapses
Listing == INSTANCE EventListing
Health == INSTANCE Services
Students == INSTANCE StudentRegistry WITH
  images <- pictures, loc <- form, MaxFaults <- MaxErrors

ASSUME TokenAssumption == Register!TokenConstants
ASSUME ListingAssumption == Listing!ListingConstants

registerVars == <<now, settings, tokens, loc, issued, started>>
eventsVars == <<stored, request, offset, seen, begun, done>>
healthzVars == <<up, api, worker, health>>
studentsVars == <<students, attendance, pictures, files, calls, form, logins>>
vars == <<endpoint, pc, faults, configured,
          registerVars, uploadVars, eventsVars, healthzVars, studentsVars>>

(* What an endpoint that is not looked at starts with does not matter, and
   neither does which settings the API starts with. *)
Init ==
  /\ endpoint \in {"register", "upload", "events", "healthz", "students"}
  /\ Register!Init /\ Upload!Init /\ Listing!Init /\ Health!Init /\ Students!Init
  /\ settings = CHOOSE s \in Settings : TRUE
  /\ endpoint \notin {"upload", "students"} => configured
  /\ endpoint # "events" => stored = {} /\ request = CHOOSE q \in Listing!Request : TRUE
  /\ endpoint # "healthz" => up = {}

Next ==
  \/ /\ endpoint = "register" /\ Register!Next
     /\ UNCHANGED <<configured, uploadVars, eventsVars, healthzVars, studentsVars>>
     /\ UNCHANGED endpoint
  \/ /\ endpoint = "upload" /\ Upload!Next
     /\ UNCHANGED <<registerVars, eventsVars, healthzVars, studentsVars>>
     /\ UNCHANGED endpoint
  \/ /\ endpoint = "events" /\ Listing!Next
     /\ UNCHANGED <<pc, faults, configured>>
     /\ UNCHANGED <<registerVars, uploadVars, healthzVars, studentsVars>>
     /\ UNCHANGED endpoint
  \/ /\ endpoint = "healthz" /\ Health!Next
     /\ UNCHANGED <<pc, configured, registerVars, uploadVars, eventsVars, studentsVars>>
     /\ UNCHANGED endpoint
  \/ /\ endpoint = "students" /\ Students!Next
     /\ UNCHANGED <<registerVars, uploadVars, eventsVars, healthzVars>>
     /\ UNCHANGED endpoint

At(e, A) == endpoint = e /\ A

(* A handler runs on once it is started, and what it sends arrives unless it
   is lost; containers are restarted, and the container's health check asks
   /healthz every 30 seconds.  Requests, faults, inserts, the clock and the
   return of a service are not fair. *)
Fairness ==
  /\ \A r \in Requests : /\ WF_<<pc, faults, configured, uploadVars>>(At("upload", Upload!Receive(r)))
                         /\ WF_<<pc, faults, configured, uploadVars>>(At("upload", Upload!Replied(r)))
  /\ WF_<<healthzVars, faults>>(At("healthz", Health!ApiStart))
  /\ WF_<<healthzVars, faults>>(At("healthz", Health!Healthz))
  /\ \A w \in Workers : WF_<<healthzVars, faults>>(At("healthz", Health!WorkerStart(w)))
  /\ WF_<<pc, faults, configured, studentsVars>>(At("students", Students!Serve))
  /\ \A r \in Requests :
       WF_<<pc, faults, configured, studentsVars>>(At("students", Students!Step(r)))

FairSpec == Init /\ [][Next]_vars /\ Fairness

-----------------------------------------------------------------------------
(* The properties of the parts, each of the endpoint it is about.  *)

(* An access token is accepted for ACCESS_TTL from when Issue took the time,
   less a part of a second, also when the API restarted in between, and until
   the answer's expires_at. *)
LifetimeExact == Register!LifetimeExact

(* A refresh token that was handed out and whose INSERT did not fail is in the
   table, also if it equals one issued in the same second. *)
RefreshStored == Register!RefreshStored

(* A client that has read all pages has seen every event that was there when
   it began, whatever was stored meanwhile, except where times are equal, and
   nothing it did not ask for. *)
ListingExact == Listing!ListingExact

(* An upload is answered 200 with the URL of its own image, and 502 only
   because of a fault, however Go orders its maps; images that no answer names
   are due to faults as well. *)
UploadsRight == endpoint = "upload" => Upload!UploadsRight

(* The invariant of the proofs: those of the parts, where they apply. *)
EndpointsInv ==
  /\ IF endpoint = "register" THEN Register!TokenInv ELSE issued = {}
  /\ endpoint = "upload" => Upload!UploadInv
  /\ Listing!ListingInv

(* Every upload request, and every request to newGoAttend's backend, is
   answered. *)
RequestsAnswered ==
  /\ endpoint = "upload" => Upload!EveryUploadAnswered
  /\ endpoint = "students" => Students!EveryRequestAnswered

(* An API that was started during an outage of Postgres needs no restart to be
   healthy again, and workers consume again once Postgres is there for good. *)
ServicesReturn == endpoint = "healthz" => Health!ServicesReturn

(* Once faults have stopped, a login whose photo matches a registered face is
   marked. *)
LoginMarks == endpoint = "students" => Students!LoginMarks
=============================================================================
