--------------------------- MODULE MCTokenRefresh ---------------------------
(* The instances of the browser's API calls that TLC explores. *)
EXTENDS TokenProperties

CONSTANTS t1, t2, a, b, in, out, other

MCTab  == [c \in Calls |-> IF c = other THEN t2 ELSE t1]
MCKind == [c \in Calls |-> IF c = in THEN "login" ELSE IF c = out THEN "logout" ELSE "api"]

InApp   == [t \in Tabs |-> "app"]
AtLogin == [t \in Tabs |-> "login"]
=============================================================================
