-------------------------------- MODULE Tenancy --------------------------------
(* What the parts of the multi-tenant admission of requests share.           *)
CONSTANTS Requests,   \* callers of one tenant, one request at a time each
          None        \* no value
=============================================================================
