---------------------------- MODULE MCTokenStore ----------------------------
EXTENDS TokenStore
CONSTANTS g1, g2, mail
MCGranted == [g \in Grant |-> IF g = g1 THEN {} ELSE {mail}]
MCMaxOf == [op \in Op |-> IF op = "login" THEN 1 ELSE 2]
MCNoLogin == [op \in Op |-> IF op = "login" THEN 0 ELSE 1]
=============================================================================
