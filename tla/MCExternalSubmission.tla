----------------------- MODULE MCExternalSubmission -------------------------
(* Model-checking instance of ExternalSubmission. *)
EXTENDS ExternalSubmission
=============================================================================
