------------------------- MODULE MC_CallRecordings -------------------------
(* One or two recordings, one or two requests and sweeps, at most two      *)
(* failures or deployments.                                                *)
EXTENDS CallRecordings

TwoProviders == {"local", "s3"}
=============================================================================
