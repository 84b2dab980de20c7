---------------------------- MODULE MCWebClient ----------------------------
(***************************************************************************)
(* A small instance of WebClient: two tenants, two users of different      *)
(* roles, two handlers under way at a time.                                *)
(***************************************************************************)
EXTENDS WebClient

CONSTANTS d1, d2, acme, globex

MCDocs == {d1, d2}
MCTenants == {acme, globex}
MCSignIns ==
  {[username |-> "admin", tenant |-> acme], [username |-> "uploader", tenant |-> globex]}
MCSeeded == [d \in MCDocs |-> IF d = d1 THEN acme ELSE None]
=============================================================================
