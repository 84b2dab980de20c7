------------------------------- MODULE Access -------------------------------
(***************************************************************************)
(* Who may do what: the demo login, the principal a token stands for and   *)
(* the roles each route asks for (app/core/security.py, app/api/deps.py,   *)
(* app/api/v1/auth.py and the route declarations of app/api/v1).           *)
(***************************************************************************)

Roles == {"admin", "reviewer", "uploader"}
AllRoles == Roles \union {"service"}
Unauthorized == [error |-> 401]

(* login: a demo user holds the one role it is named for, in whichever tenant
   the caller names. *)
IssuedFor(username, tenant) == [subject |-> username, tenant |-> tenant, roles |-> {username}]

(* decode_token: tenant and roles come from the token and nothing else; roles
   that are not known do not count, and one at least must remain. *)
Principal(token) ==
  IF token.roles \intersect AllRoles = {} THEN Unauthorized
  ELSE [token EXCEPT !.roles = @ \intersect AllRoles]

(* The roles each route declares; reads are open to every principal. *)
RolesFor(route) ==
  CASE route = "admin status" -> {"admin"}
    [] route = "upload" -> {"uploader", "admin"}
    [] route \in {"save", "submit"} -> {"reviewer", "admin"}
    [] route \in {"list", "detail"} -> AllRoles

(* require_roles. *)
MayUse(principal, route) ==
  /\ "roles" \in DOMAIN principal
  /\ principal.roles \intersect RolesFor(route) # {}
=============================================================================
