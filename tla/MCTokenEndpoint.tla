-------------------------- MODULE MCTokenEndpoint --------------------------
(* Small instances of TokenEndpoint for TLC.                                *)
EXTENDS TokenEndpoint, TLC

(* Every client may use every scope.                                        *)
AllScopes == [c \in Clients |-> Scopes]

(* Only the grants that start and continue a token family.                  *)
FamilyGrants == [c \in Clients |-> {"authorization_code", "refresh_token"}]

(* One client starts families, the other exchanges what it is handed.       *)
FrontAndBack ==
    [c \in Clients |-> IF c = CHOOSE d \in Clients : TRUE
                       THEN {"authorization_code", "refresh_token", "token_exchange"}
                       ELSE {"token_exchange", "jwt_bearer", "client_credentials"}]

RequestSymmetry == Permutations(Requests)

ScopeSymmetry == Permutations(Scopes)
=============================================================================
