----------------------------- MODULE MCWebServer ----------------------------
(* Two browsers and requests two deep; the waits end at the next tick, so that a
   request with two questions to the remote host can outlive them. *)
EXTENDS WebServer

MCKinds == {"page", "upload", "file", "slow", "update"}
=============================================================================
