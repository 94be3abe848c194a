--------------------------------- MODULE Desk ---------------------------------
(* The members of staff who work in the administration, each at one form   *)
(* at a time.                                                              *)
CONSTANTS
  Clerk,         \* members of staff
  None           \* the null value

ASSUME DeskAssumption == None \notin Clerk
==============================================================================
