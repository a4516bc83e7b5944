------------------------------ MODULE MCTransport ------------------------------
(***************************************************************************)
(* Two threads on one reader whose policy permits public addresses; the    *)
(* proxy, if there is one, is at a public address.                         *)
(***************************************************************************)
EXTENDS CurlTransport

MCAddresses == {"public", "link-local", "unknown"}
MCPermitted == {"public"}
MCProxies   == {"None", "public"}
==============================================================================
