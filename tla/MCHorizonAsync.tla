--------------------------- MODULE MCHorizonAsync ---------------------------
EXTENDS HorizonAsync
CONSTANTS t1, t2, s1, s2, o1, o2, p1

\* Two receives on one socket, or an accept and a posted packet.
StartsDef == {[socks |-> {s1}, past |-> {p1}], [socks |-> {s2}, past |-> {o2}]}
=============================================================================
