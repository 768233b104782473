----------------------------- MODULE MCUploader -----------------------------
(* Two events, the older of which cannot be packed.  A token is good for   *)
(* one request, so that every call renews the session; MCConveyorClient    *)
(* has longer budgets.  Two names suffice: at most one is in use when the  *)
(* Conveyor issues the next (SecretIsCurrent).                             *)
EXTENDS Uploader

CONSTANTS t1, t2

MCEvents == 1..2
MCPoison == {1}
MCTokens == {t1, t2}
MCGrants == {1}
=============================================================================
