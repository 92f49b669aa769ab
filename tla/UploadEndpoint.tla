--------------------------- MODULE UploadEndpoint ---------------------------
(***************************************************************************)
(* The upload endpoint (ImageUpload) with the state that Endpoints lets it *)
(* share with the other endpoints: a request with its program counter, the *)
(* number of faults, and whether Cloudinary is configured.                 *)
(***************************************************************************)
EXTENDS Integers

CONSTANTS
  Requests, MaxFaults, None,
  Photos, ApiKey, Secret, Folder, Decimal, MaxClock

VARIABLES
  pc, faults, configured,
  clock, images, body, net, reply, answer

Upload == INSTANCE ImageUpload WITH MaxTime <- MaxClock

ASSUME UploadAssumption == Upload!UploadConstants

uploadVars == <<clock, images, body, net, reply, answer>>
=============================================================================
