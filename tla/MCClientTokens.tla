--------------------------- MODULE MCClientTokens ---------------------------
(* Small instances of ClientTokens for TLC. *)
EXTENDS ClientTokens

\* Two tabs of one browser, each with one call at a time.
MCTabs  == {"left", "right"}
MCCalls == {"mine", "other"}
MCTabOf == [c \in MCCalls |-> IF c = "mine" THEN "left" ELSE "right"]
=============================================================================
