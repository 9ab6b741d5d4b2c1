---- MODULE MCBodyReader ----
(* Bodies of up to four bytes under a cap of two: shorter than the cap, just fitting, one over, and *)
(* over by more than the one byte that is read to find out.                                        *)
EXTENDS BodyReader
AllHosts == {"wsgi", "asgi", "django"}
====
