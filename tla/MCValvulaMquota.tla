--------------------------- MODULE MCValvulaMquota ---------------------------
(* A small instance of ValvulaMquota for TLC: a day of two hours of two minutes. *)
EXTENDS ValvulaMquota, TLC
CONSTANTS u1, u2, u3, d1, k

MCDomainOf == [u \in Users |-> IF u = u3 THEN NULL ELSE d1]

Windowed(m, h, g) == [w \in Windows |-> IF w = "minute" THEN m ELSE IF w = "hour" THEN h ELSE g]
Period(from, to, u, dm) == [start |-> from, end |-> to, user |-> u, domain |-> dm]

Day   == Period(1, 2, Windowed(1, -1, 2), Windowed(-1, 2, 2))
Night == Period(3, 0, Windowed(2, 2, 2), Windowed(1, -1, 1))
Late  == Period(3, 1, Windowed(1, -1, 2), Windowed(1, 1, -1))

\* Day and night; one that covers midnight before one that overlaps it; gaps.
MCConfigs == {<<Day, Night>>, <<Late, Day>>, <<Day>>}

\* A period within one hour before another that follows it.
Short == Period(0, 1, Windowed(1, 2, 2), Windowed(1, 2, 2))
MCSameHourConfigs == {<<Short, Day>>}

\* "you only have to define a period to cover nights period".
MCNightConfigs == {<<Night>>}

\* The accounts of the domain are interchangeable.
AccountsOfDomain == Permutations({u1, u2})
=============================================================================
