-------------------------------- MODULE Access --------------------------------
(***************************************************************************)
(* Who is calling (pkg/auth, pkg/grpcx): the principal the interceptor put *)
(* on the context, and the role gates the handlers open with.              *)
(***************************************************************************)
CONSTANTS Principals,  \* subjects with a verified token
          RolesOf      \* realm_access.roles of each

ASSUME RolesOfPrincipals == DOMAIN RolesOf = Principals

HasRole(p, r) == r \in RolesOf[p]
HasAnyRole(p, rs) == RolesOf[p] \cap rs # {}

(* grpcx.RequireRole: the handler goes on only for a caller with the role. *)
RequireRole(p, r) == p \in Principals /\ HasRole(p, r)
RequireAnyRole(p, rs) == p \in Principals /\ HasAnyRole(p, rs)
=============================================================================
