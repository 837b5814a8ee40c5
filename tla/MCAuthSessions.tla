--------------------------- MODULE MCAuthSessions ---------------------------
(* Small instances of AuthSessions for TLC. *)
EXTENDS AuthSessions, TLC

CONSTANTS h1, h2

\* Sessions go on at both handlers.  One of them serves what ends accounts and
\* passwords, the other what administrators change in accounts: either can take
\* an administrator away while the other does.
SessionsAndRemovals ==
    (h1 :> {"register", "refresh", "password", "deleteAccount", "adminDelete"})
        @@ (h2 :> {"login", "refresh", "logout", "setActive", "setBoth"})

LoginAndDelete == [h \in Handlers |-> {"login", "deleteAccount"}]

Symmetry == Permutations(Tokens)
=============================================================================
