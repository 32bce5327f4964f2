------------------------------ MODULE MCBoard -------------------------------
(* Instance of Board for TLC. *)
EXTENDS Board

\* One data file: a model next to the application and the settings.
OneFile == <<"model">>
=============================================================================
