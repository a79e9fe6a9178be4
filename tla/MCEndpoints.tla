---------------------------- MODULE MCEndpoints ----------------------------
(* Small instances of the endpoints for TLC. *)
EXTENDS EndpointProperties

\* Names with marks of one platform, of none, and of two.
Named(ends, says) == [ends |-> ends, says |-> says]
MCNames == {Named(".app.tar.gz", {}), Named(".tar.gz", {"linux", "windows"}), Named(".md", {})}
MCWorkloads == {"video_editing", "rendering_3d", "machine_learning", "web_development",
                "data_processing", "games", "inherited"}
MCIntensities == {"low", "medium", "high", "extreme", "inherited"}
=============================================================================
